---- MODULE Spec2Model ----
(***************************************************************************)
(* A model of the Dynamic Itchy interpreter: the lexer (src/src/lexer.py), *)
(* the recursive-descent parser (src/src/parser.py), the tree-walking      *)
(* evaluator (src/src/ast.py), the list wrapper (src/src/typing.py) and    *)
(* the interpreter facade (src/src/interpreter.py).                        *)
(*                                                                         *)
(* Host objects (dicts, ListWrappers, closures) live in `heap`, a sequence *)
(* addressed by position, so that aliasing is modelled.  The persistent    *)
(* environment of the interpreter is the dict at address Root.             *)
(*                                                                         *)
(* The lexer, the parser and the evaluator are loops and recursive         *)
(* methods; the model runs each as a machine that makes one move at a time *)
(* (Lexer_step, Parser_step, Evaluator_step) and keeps the pending calls   *)
(* on an explicit stack.  One operation of the facade runs the three to    *)
(* the end.  A run records what it did in `log`: scopes entered and left,  *)
(* names assigned, members stored, calls made and ended.                   *)
(*                                                                         *)
(* Exceptions are modelled by their kind, a string: the DI* classes of     *)
(* src/src/exceptions.py and the host exceptions that escape untranslated. *)
(* src/src/ast.py imports and raises DIFunctionArgsCountError, a class     *)
(* src/src/exceptions.py does not define; the model takes it to be one     *)
(* more subclass of DIBaseException, declared like its siblings.           *)
(*                                                                         *)
(* Not modelled: floats and complex numbers (the sources fed to the model  *)
(* hold no '.' inside a number and no division '/'), the line and column   *)
(* of tokens and nodes, and the insertion order of dicts.  A value         *)
(* operation outside the modelled fragment, and a run of more than         *)
(* MaxTurns moves, end with the error kind "Unmodelled", which no run of   *)
(* the model reaches (see NoUnmodelled).                                   *)
(***************************************************************************)
EXTENDS Integers, Sequences, FiniteSets, TLC

VARIABLES
    heap,     \* the host objects; heap[Root] is Interpreter.environment
    value,    \* what tree.evaluate returned in the last operation
    error,    \* the kind of the exception the last operation raised, or ""
    log,      \* history: what the evaluator did during the last operation
    last,     \* history: the last operation and the source it was given
    ops,      \* number of facade operations performed so far
    suite     \* which family of source texts the embedder feeds in

vars == <<heap, value, error, log, last, ops, suite>>

-----------------------------------------------------------------------------
(* Values (src/src/typing.py, TResult).                                    *)

Null == [t |-> "null"]
VBool(b) == [t |-> "bool", b |-> b]
VInt(i) == [t |-> "int", i |-> i]
VStr(s) == [t |-> "str", s |-> s]
VList(a) == [t |-> "list", a |-> a]
VDict(a) == [t |-> "dict", a |-> a]
VFunc(a) == [t |-> "func", a |-> a]

IsNum(v) == v.t \in {"int", "bool"}
NumOf(v) == IF v.t = "bool" THEN (IF v.b THEN 1 ELSE 0) ELSE v.i

\* Host objects.
DictObj(d) == [k |-> "dict", d |-> d]
ListObj(c) == [k |-> "list", c |-> c]
FuncObj(cls, env, node, snap) ==
    [k |-> "func", cls |-> cls, env |-> env, params |-> node.params,
     body |-> node.body, snap |-> snap]

EmptyDict == [n \in {} |-> Null]

\* The evaluator's threaded state and its results.
Ok(st, v) == [st |-> st, v |-> v]
Raise(st, kind) == [st |-> [st EXCEPT !.err = kind], v |-> Null]
Failed(r) == r.st.err # ""

NewAddr(st) == Len(st.heap) + 1
Alloc(st, obj) == [st EXCEPT !.heap = Append(@, obj)]
Emit(st, e) == [st EXCEPT !.log = Append(@, e)]
EnvOf(st, env) == st.heap[env].d
DictSet(st, a, name, v) == [st EXCEPT !.heap[a].d = (name :> v) @@ @]

RECURSIVE Join(_)
Join(cs) == IF cs = <<>> THEN "" ELSE Head(cs) \o Join(Tail(cs))

\* Python truthiness (bool(x)); ListWrapper.__bool__ is typing.py:15-16.
Truthy(v, h) ==
    CASE v.t = "null" -> FALSE
      [] v.t = "bool" -> v.b
      [] v.t = "int" -> v.i # 0
      [] v.t = "str" -> Len(v.s) > 0
      [] v.t = "list" -> Len(h[v.a].c) > 0
      [] v.t = "dict" -> DOMAIN h[v.a].d # {}
      [] v.t = "func" -> TRUE

\* len(x): defined for str, ListWrapper (typing.py:21-22) and dict.
HasLen(v) == v.t \in {"str", "list", "dict"}
LenOf(v, h) ==
    CASE v.t = "str" -> Len(v.s)
      [] v.t = "list" -> Len(h[v.a].c)
      [] v.t = "dict" -> Cardinality(DOMAIN h[v.a].d)

\* x == y on host values; ListWrapper.__eq__ is typing.py:221-224.
RECURSIVE ValEq(_, _, _)
ValEq(x, y, h) ==
    CASE IsNum(x) /\ IsNum(y) -> NumOf(x) = NumOf(y)
      [] x.t = "str" /\ y.t = "str" -> x.s = y.s
      [] x.t = "null" /\ y.t = "null" -> TRUE
      [] x.t = "func" /\ y.t = "func" -> x.a = y.a
      [] x.t = "list" /\ y.t = "list" ->
            LET xs == h[x.a].c
                ys == h[y.a].c
            IN /\ Len(xs) = Len(ys)
               /\ \A i \in 1..Len(xs) : ValEq(xs[i], ys[i], h)
      [] x.t = "dict" /\ y.t = "dict" ->
            LET xd == h[x.a].d
                yd == h[y.a].d
            IN \/ x.a = y.a
               \/ /\ DOMAIN xd = DOMAIN yd
                  /\ \A n \in DOMAIN xd : ValEq(xd[n], yd[n], h)
      [] OTHER -> FALSE

-----------------------------------------------------------------------------
(* Operators on host values.  A result is [st, v]; st.err names the host   *)
(* exception raised ("TypeError", "ValueError", "IndexError", "KeyError",  *)
(* "ZeroDivisionError", "AttributeError") or the DI error kind.            *)

\* Python's // and % on ints, for b # 0.
PyFloorDiv(a, b) == IF b > 0 THEN a \div b ELSE (-a) \div (-b)
PyMod(a, b) == a - b * PyFloorDiv(a, b)

NumArith(op, a, b) ==
    CASE op = "+" -> a + b
      [] op = "-" -> a - b
      [] op = "*" -> a * b
      [] op = "//" -> PyFloorDiv(a, b)
      [] op = "%" -> PyMod(a, b)

RECURSIVE Repeat(_, _)
Repeat(s, n) == IF n <= 0 THEN <<>> ELSE s \o Repeat(s, n - 1)

ModelledOps == {"+", "-", "*", "//", "%"}

RECURSIVE Arith(_, _, _, _)
RECURSIVE ListWrapper_zip(_, _, _, _, _, _)

\* [a op b for a, b in zip(self.content, other.content)]
ListWrapper_zip(op, xs, ys, i, st, acc) ==
    IF i > Len(xs) THEN Ok(Alloc(st, ListObj(acc)), VList(NewAddr(st)))
    ELSE LET r == Arith(op, xs[i], ys[i], st)
         IN IF Failed(r) THEN r
            ELSE ListWrapper_zip(op, xs, ys, i + 1, r.st, Append(acc, r.v))

\* ListWrapper.__add__, __sub__, __mul__, __floordiv__, __mod__.
ListWrapper_arith(op, x, y, st) ==
    IF op = "*" /\ IsNum(y)
    THEN Raise(st, "TypeError")          \* len(other) of an int
    ELSE IF y.t # "list" THEN Raise(st, "TypeError")
    ELSE IF Len(st.heap[x.a].c) # Len(st.heap[y.a].c) THEN Raise(st, "ValueError")
    ELSE ListWrapper_zip(op, st.heap[x.a].c, st.heap[y.a].c, 1, st, <<>>)

\* lhs op rhs for op in + - * // %.
Arith(op, x, y, st) ==
    IF op = "/" /\ IsNum(x) /\ IsNum(y) /\ NumOf(y) = 0
    THEN Raise(st, "ZeroDivisionError")
    ELSE IF op \notin ModelledOps THEN Raise(st, "Unmodelled")
    ELSE CASE IsNum(x) /\ IsNum(y) ->
                IF op \in {"//", "%"} /\ NumOf(y) = 0
                THEN Raise(st, "ZeroDivisionError")
                ELSE Ok(st, VInt(NumArith(op, NumOf(x), NumOf(y))))
           [] x.t = "str" /\ y.t = "str" /\ op = "+" -> Ok(st, VStr(x.s \o y.s))
           [] x.t = "str" /\ IsNum(y) /\ op = "*" -> Ok(st, VStr(Repeat(x.s, NumOf(y))))
           [] IsNum(x) /\ y.t = "str" /\ op = "*" -> Ok(st, VStr(Repeat(y.s, NumOf(x))))
           [] x.t = "str" /\ op = "%" -> Raise(st, "Unmodelled")
           [] x.t = "list" -> ListWrapper_arith(op, x, y, st)
           [] OTHER -> Raise(st, "TypeError")

\* lhs op rhs for the comparison operators.
Compare(op, x, y, st) ==
    CASE op = "==" -> Ok(st, VBool(ValEq(x, y, st.heap)))
      [] op = "!=" -> Ok(st, VBool(~ValEq(x, y, st.heap)))
      [] IsNum(x) /\ IsNum(y) ->
            Ok(st, VBool(CASE op = "<" -> NumOf(x) < NumOf(y)
                           [] op = "<=" -> NumOf(x) <= NumOf(y)
                           [] op = ">" -> NumOf(x) > NumOf(y)
                           [] op = ">=" -> NumOf(x) >= NumOf(y)))
      [] x.t = "str" /\ y.t = "str" -> Raise(st, "Unmodelled")
      [] x.t = "list" /\ y.t = "list" -> Raise(st, "Unmodelled")
      [] OTHER -> Raise(st, "TypeError")

\* ListWrapper.__getitem__ with an int (typing.py:24-48), and str[int].
\* A range that leaves out the index -size.
InRange_open(size, item) == -size < item /\ item < size
InRange(size, item) == -size <= item /\ item < size
At(seq, item) == IF item >= 0 THEN seq[item + 1] ELSE seq[Len(seq) + item + 1]

ListWrapper_getitem(v, key, st) ==
    IF ~IsNum(key) THEN Raise(st, "TypeError")
    ELSE LET content == st.heap[v.a].c
         IN IF InRange(Len(content), NumOf(key))
            THEN Ok(st, At(content, NumOf(key)))
            ELSE Raise(st, "IndexError")

\* value[key] on a host value.
Subscript(v, key, st) ==
    CASE v.t = "list" -> ListWrapper_getitem(v, key, st)
      [] v.t = "str" ->
            IF ~IsNum(key) THEN Raise(st, "TypeError")
            ELSE IF InRange(Len(v.s), NumOf(key))
                 THEN Ok(st, VStr(<<At(v.s, NumOf(key))>>))
                 ELSE Raise(st, "IndexError")
      [] v.t = "dict" ->
            IF key.t \in {"list", "dict"} THEN Raise(st, "TypeError")
            ELSE IF key.t = "str" /\ Join(key.s) \in DOMAIN st.heap[v.a].d
                 THEN Ok(st, st.heap[v.a].d[Join(key.s)])
                 ELSE Raise(st, "KeyError")
      [] OTHER -> Raise(st, "TypeError")

\* value[name] with a host string: the member walk of $attr.
Member(v, name, st) ==
    CASE v.t = "dict" ->
            IF name \in DOMAIN st.heap[v.a].d
            THEN Ok(st, st.heap[v.a].d[name])
            ELSE Raise(st, "KeyError")
      [] OTHER -> Raise(st, "TypeError")

-----------------------------------------------------------------------------
(* AST nodes, as the parser builds them (src/src/ast.py).                  *)

NoNode == [type |-> "None"]
ScopeNode(instructions) == [type |-> "Scope", instructions |-> instructions]
IfElseNode(conditions, branch_scopes, else_scope) ==
    [type |-> "IfElse", conditions |-> conditions,
     branch_scopes |-> branch_scopes, else_scope |-> else_scope]
WhileNode(condition, scope) ==
    [type |-> "While", condition |-> condition, scope |-> scope]
AssignmentNode(operands, orders) ==
    [type |-> "Assignment", chain_of_assignments |-> operands,
     chain_of_orders |-> orders]
OperatorNode(operator, operands) ==
    [type |-> "Operator", operator |-> operator, operands |-> operands]
ComparisonNode(operators, operands) ==
    [type |-> "Comparison", operators |-> operators, operands |-> operands]
LeftPolyOperatorNode(operators, operands) ==
    [type |-> "LeftPolyOperator", operators |-> operators, operands |-> operands]
UnaryOperatorNode(operator, operand) ==
    [type |-> "UnaryOperator", operator |-> operator, operand |-> operand]
FunctionDeclarationNode(params, scope) ==
    [type |-> "FunctionDeclaration", params |-> params, body |-> scope]
ClassDeclarationNode(params, scope) ==
    [type |-> "ClassDeclaration", params |-> params, body |-> scope]
EllipsisOperatorNode(list_value) ==
    [type |-> "EllipsisOperator", elements |-> list_value]
NumberNode(number) == [type |-> "Number", number |-> number]
BooleanNode(v) == [type |-> "Boolean", value |-> v]
NullNode == [type |-> "Null"]
StringNode(string) == [type |-> "String", string |-> string]
ListNode(elements) == [type |-> "List", elements |-> elements]
IdentifierNode(name) == [type |-> "Identifier", name |-> name]

-----------------------------------------------------------------------------
(* The evaluator (src/src/ast.py).  node.evaluate(environment) recurses on *)
(* the host stack; the model keeps that stack explicitly.  A state `e` of   *)
(* the evaluator holds the heap, the log and the pending exception (err),  *)
(* the stack `k` of the activations that wait for a callee, and what runs  *)
(* now (mode):                                                             *)
(*   "eval"    node.evaluate(env) is entered (flush: flush_variables)      *)
(*   "assign"  perform_assignment(lhs, rhs, return_old, env) is entered    *)
(*   "ret"     the callee returned v to the activation on top of k         *)
(*   "raise"   the exception err reaches the activation on top of k        *)
(* An activation record names its method (f), the point it waits at and    *)
(* the locals it needs afterwards.  Evaluator_step is one such move.       *)

Return(e, v) == [e EXCEPT !.mode = "ret", !.v = v]
Throw(e, kind) == [e EXCEPT !.mode = "raise", !.err = kind]
Push(e, fr) == [e EXCEPT !.k = Append(@, fr)]
Eval(e, node, env) ==
    [e EXCEPT !.mode = "eval", !.node = node, !.env = env, !.flush = TRUE]
EvalScope(e, node, env, flush_variables) ==
    [e EXCEPT !.mode = "eval", !.node = node, !.env = env, !.flush = flush_variables]
Assign(e, lhs, rhs, return_old, env) ==
    [e EXCEPT !.mode = "assign", !.lhs = lhs, !.rhs = rhs,
              !.return_old = return_old, !.env = env]

\* The outcome [st, v] of an operation on host values, as the next move.
Then(r) == IF Failed(r) THEN [r.st EXCEPT !.mode = "raise"] ELSE Return(r.st, r.v)

\* The same, inside `try: ... except <host>: raise <di>`.
ThenExcept(r, host, di) ==
    IF r.st.err = host THEN Throw(r.st, di) ELSE Then(r)

-----------------------------------------------------------------------------
(* ScopeNode, IfElseNode, WhileNode.                                       *)

\* A scope exit that pops nothing.
ScopeNode_flush_nothing(d, old_environment) == d

\* The entries the exit of a scope keeps: every key that is not in
\* old_environment is popped.
ScopeNode_flush(d, old_environment) ==
    IF DOMAIN d \subseteq old_environment THEN d
    ELSE [n \in DOMAIN d \cap old_environment |-> d[n]] @@ EmptyDict

\* After the last instruction, whose value is e.v.
ScopeNode_exit(e, fr) ==
    LET d == EnvOf(e, fr.env)
        kept == IF fr.flush THEN ScopeNode_flush(d, DOMAIN fr.before) ELSE d
    IN Return(Emit([e EXCEPT !.heap[fr.env].d = kept],
                   [ev |-> "scope", env |-> fr.env, flush |-> fr.flush,
                    before |-> fr.before, atexit |-> d, after |-> kept,
                    start |-> fr.start]),
              e.v)

ScopeNode_evaluate(e) ==
    LET fr == [f |-> "Scope", node |-> e.node, i |-> 1, env |-> e.env,
               flush |-> e.flush, before |-> EnvOf(e, e.env),
               start |-> Len(e.log) + 1]
        e1 == Emit(e, [ev |-> "enter", env |-> e.env, d |-> fr.before])
    IN IF e.node.instructions = <<>> THEN ScopeNode_exit([e1 EXCEPT !.v = Null], fr)
       ELSE Eval(Push(e1, fr), e.node.instructions[1], e.env)

ScopeNode_resume(e, fr) ==
    IF fr.i < Len(fr.node.instructions)
    THEN Eval(Push(e, [fr EXCEPT !.i = @ + 1]), fr.node.instructions[fr.i + 1], fr.env)
    ELSE ScopeNode_exit(e, fr)

\* for condition, scope in zip(self.conditions, self.branch_scopes), at pair i
IfElseNode_branch(e, node, i, env) ==
    IF i > Len(node.conditions)
    THEN IF node.else_scope.type # "None" THEN Eval(e, node.else_scope, env)
         ELSE Return(e, Null)
    ELSE Eval(Push(e, [f |-> "IfElse", node |-> node, i |-> i, env |-> env]),
              node.conditions[i], env)

IfElseNode_evaluate(e) == IfElseNode_branch(e, e.node, 1, e.env)

IfElseNode_resume(e, fr) ==
    IF Truthy(e.v, e.heap) THEN Eval(e, fr.node.branch_scopes[fr.i], fr.env)
    ELSE IfElseNode_branch(e, fr.node, fr.i + 1, fr.env)

\* while self.condition.evaluate(environment)
WhileNode_condition(e, node, env, result) ==
    Eval(Push(e, [f |-> "While", node |-> node, env |-> env, result |-> result,
                  in_scope |-> FALSE]),
         node.condition, env)

WhileNode_evaluate(e) == WhileNode_condition(e, e.node, e.env, Null)

\* A loop that ends after the first evaluation of its body.
WhileNode_resume_once(e, fr) ==
    IF fr.in_scope THEN Return(e, e.v)
    ELSE IF Truthy(e.v, e.heap)
    THEN Eval(Push(e, [fr EXCEPT !.in_scope = TRUE]), fr.node.scope, fr.env)
    ELSE Return(e, fr.result)

WhileNode_resume(e, fr) ==
    IF fr.in_scope THEN WhileNode_condition(e, fr.node, fr.env, e.v)
    ELSE IF Truthy(e.v, e.heap)
    THEN Eval(Push(e, [fr EXCEPT !.in_scope = TRUE]), fr.node.scope, fr.env)
    ELSE Return(e, fr.result)

-----------------------------------------------------------------------------
(* AssignmentNode.  The right-hand side handed along the chain is either   *)
(* a node still to evaluate or an already evaluated value.                 *)

RhsNode(n) == [isnode |-> TRUE, node |-> n]
RhsVal(v) == [isnode |-> FALSE, val |-> v]

\* new_value = AssignmentNode.evaluate_if_not(rhs, environment); the
\* activation fr goes on with new_value.
evaluate_if_not(e, rhs, env, fr) ==
    IF rhs.isnode THEN Eval(Push(e, fr), rhs.node, env)
    ELSE Return(Push(e, fr), rhs.val)

assign_identifier(e) ==
    evaluate_if_not(e, e.rhs, e.env,
                    [f |-> "assign_identifier", lhs |-> e.lhs,
                     return_old |-> e.return_old, env |-> e.env])

assign_identifier_resume(e, fr) ==
    LET new_value == e.v
        d == EnvOf(e, fr.env)
        old_value == IF fr.lhs.name \in DOMAIN d THEN d[fr.lhs.name] ELSE Null
    IN Return(Emit(DictSet(e, fr.env, fr.lhs.name, new_value),
                   [ev |-> "assign", env |-> fr.env, name |-> fr.lhs.name,
                    v |-> new_value]),
              IF fr.return_old THEN old_value ELSE new_value)

\* iter(x) for a ListWrapper or a str.
Iterate(v, h) ==
    IF v.t = "list" THEN h[v.a].c
    ELSE [i \in 1..Len(v.s) |-> VStr(<<v.s[i]>>)]

\* rhs_value[slice(start, stop)] with 0 <= start <= stop <= len.
Slice(v, start, stop, st) ==
    IF v.t = "list"
    THEN Ok(Alloc(st, ListObj(SubSeq(st.heap[v.a].c, start + 1, stop))),
            VList(NewAddr(st)))
    ELSE Ok(st, VStr(SubSeq(v.s, start + 1, stop)))

\* The bounds of the slice the splat target receives: slice(idx, idx + n - m + 1).
SliceStart(idx, n, m) == idx
\* A splat that takes one element whenever there is one to take.
SliceStop_one(idx, n, m) == IF n >= m THEN idx + 1 ELSE idx
SliceStop(idx, n, m) == idx + n - m + 1

\* for i, v in zip(targets, values, strict=True): perform_assignment(i, v, ...)
assign_each(e, fr) ==
    IF fr.i > Len(fr.targets) THEN Return(e, fr.result)
    ELSE Assign(Push(e, [fr EXCEPT !.i = @ + 1]), fr.targets[fr.i],
                RhsVal(fr.values[fr.i]), fr.return_old, fr.env)

assign_list(e) ==
    evaluate_if_not(e, e.rhs, e.env,
                    [f |-> "assign_list", lhs |-> e.lhs,
                     return_old |-> e.return_old, env |-> e.env])

\* The assignments of assign_list; e.v is lhs_old_value.
assign_list_targets(e, lhs, rhs_value, return_old, env) ==
    LET items == Iterate(rhs_value, e.heap)
        n == Len(items)
        m == Len(lhs.elements)
        ellipses == {i \in 1..m : lhs.elements[i].type = "EllipsisOperator"}
        fr == [f |-> "assign_each", targets |-> lhs.elements, values |-> items,
               i |-> 1, return_old |-> return_old, env |-> env,
               result |-> IF return_old THEN e.v ELSE rhs_value]
    IN IF ellipses # {}
       THEN LET p == CHOOSE i \in ellipses : TRUE
                start == SliceStart(p - 1, n, m)
                stop == SliceStop(p - 1, n, m)
                mono_lhs == SubSeq(lhs.elements, 1, start)
                            \o SubSeq(lhs.elements, start + 2, m)
                mono_rhs == SubSeq(items, 1, start) \o SubSeq(items, stop + 1, n)
                rhs_slice == Slice(rhs_value, start, stop, e)
            IN Assign(Push(rhs_slice.st,
                           [fr EXCEPT !.targets = mono_lhs, !.values = mono_rhs]),
                      lhs.elements[p].elements, RhsVal(rhs_slice.v), return_old, env)
       ELSE assign_each(e, fr)

\* assign_list without the test for too many values.
assign_list_resume_lenient(e, fr) ==
    LET rhs_value == e.v
        lhs == fr.lhs
        n == IF HasLen(rhs_value) THEN LenOf(rhs_value, e.heap) ELSE 0
        m == Len(lhs.elements)
        ellipses_count ==
            Cardinality({i \in 1..m : lhs.elements[i].type = "EllipsisOperator"})
    IN IF rhs_value.t \notin {"list", "str"} THEN Throw(e, "DIRuntimeSyntaxError")
       ELSE IF ellipses_count > 1 THEN Throw(e, "DIRuntimeSyntaxError")
       ELSE IF (m > n /\ ellipses_count = 0) \/ m > n + 1
       THEN Throw(e, "DIRuntimeSyntaxError")
       ELSE IF fr.return_old
       THEN Eval(Push(e, [f |-> "assign_list_old", lhs |-> lhs,
                          rhs_value |-> rhs_value, return_old |-> fr.return_old,
                          env |-> fr.env]),
                 lhs, fr.env)
       ELSE assign_list_targets([e EXCEPT !.v = Null], lhs, rhs_value, FALSE, fr.env)

assign_list_resume(e, fr) ==
    LET rhs_value == e.v
        lhs == fr.lhs
        n == IF HasLen(rhs_value) THEN LenOf(rhs_value, e.heap) ELSE 0
        m == Len(lhs.elements)
        ellipses_count ==
            Cardinality({i \in 1..m : lhs.elements[i].type = "EllipsisOperator"})
    IN IF rhs_value.t \notin {"list", "str"} THEN Throw(e, "DIRuntimeSyntaxError")
       ELSE IF ellipses_count > 1 THEN Throw(e, "DIRuntimeSyntaxError")
       ELSE IF (m > n /\ ellipses_count = 0) \/ m > n + 1
       THEN Throw(e, "DIRuntimeSyntaxError")
       ELSE IF m < n /\ ellipses_count = 0 THEN Throw(e, "DIRuntimeSyntaxError")
       ELSE IF fr.return_old
       THEN Eval(Push(e, [f |-> "assign_list_old", lhs |-> lhs,
                          rhs_value |-> rhs_value, return_old |-> fr.return_old,
                          env |-> fr.env]),
                 lhs, fr.env)
       ELSE assign_list_targets([e EXCEPT !.v = Null], lhs, rhs_value, FALSE, fr.env)

assign_list_old_resume(e, fr) ==
    assign_list_targets(e, fr.lhs, fr.rhs_value, fr.return_old, fr.env)

\* lhs.operands is [primary, group, ..., group], every group a host list of
\* nodes: `i.evaluate` in the intermediate walk and `last.evaluate` are calls
\* of a method a host list does not have.
assign_indexation(e) ==
    Eval(Push(e, [f |-> "assign_indexation", lhs |-> e.lhs, rhs |-> e.rhs,
                  return_old |-> e.return_old, env |-> e.env]),
         e.lhs.operands[1], e.env)

assign_indexation_resume(e, fr) ==
    LET intermediate == SubSeq(fr.lhs.operands, 2, Len(fr.lhs.operands) - 1)
    IN IF Len(intermediate) > 0 THEN Throw(e, "AttributeError")
       ELSE evaluate_if_not(e, fr.rhs, fr.env, [f |-> "assign_indexation_last"])

assign_indexation_last_resume(e, fr) == Throw(e, "AttributeError")

\* for i in intermediate: value = value[i.name]
RECURSIVE MemberWalk(_, _, _, _)
MemberWalk(v, names, i, st) ==
    IF i > Len(names) THEN Ok(st, v)
    ELSE LET r == Member(v, names[i].name, st)
         IN IF Failed(r) THEN r ELSE MemberWalk(r.v, names, i + 1, r.st)

assign_member(e) ==
    Eval(Push(e, [f |-> "assign_member", lhs |-> e.lhs, rhs |-> e.rhs,
                  return_old |-> e.return_old, env |-> e.env]),
         e.lhs.operands[1], e.env)

assign_member_resume(e, fr) ==
    LET intermediate == SubSeq(fr.lhs.operands, 2, Len(fr.lhs.operands) - 1)
        last_ == fr.lhs.operands[Len(fr.lhs.operands)]
        w == MemberWalk(e.v, intermediate, 1, e)
    IN IF Failed(w) THEN Then(w)
       ELSE evaluate_if_not(e, fr.rhs, fr.env,
                            [f |-> "assign_member_last", value |-> w.v,
                             last |-> last_, return_old |-> fr.return_old])

\* A member store that writes into a copy of the dict: value semantics.
assign_member_last_resume_copy(e, fr) ==
    LET new_value == e.v
    IN IF fr.value.t # "dict"
       THEN Throw(e, IF fr.return_old THEN "AttributeError" ELSE "TypeError")
       ELSE LET d == e.heap[fr.value.a].d
                old_value == IF fr.last.name \in DOMAIN d THEN d[fr.last.name]
                             ELSE Null
                copy == NewAddr(e)
            IN Return(Emit(DictSet(Alloc(e, DictObj(d)), copy, fr.last.name, new_value),
                           [ev |-> "setattr", obj |-> fr.value.a,
                            name |-> fr.last.name, v |-> new_value,
                            before |-> d]),
                      IF fr.return_old THEN old_value ELSE new_value)

assign_member_last_resume(e, fr) ==
    LET new_value == e.v
    IN IF fr.value.t # "dict"
       THEN Throw(e, IF fr.return_old THEN "AttributeError" ELSE "TypeError")
       ELSE LET d == e.heap[fr.value.a].d
                old_value == IF fr.last.name \in DOMAIN d THEN d[fr.last.name]
                             ELSE Null
            IN Return(Emit(DictSet(e, fr.value.a, fr.last.name, new_value),
                           [ev |-> "setattr", obj |-> fr.value.a,
                            name |-> fr.last.name, v |-> new_value,
                            before |-> d]),
                      IF fr.return_old THEN old_value ELSE new_value)

perform_assignment(e) ==
    CASE e.lhs.type = "Identifier" -> assign_identifier(e)
      [] e.lhs.type = "Operator" /\ e.lhs.operator = "$index" -> assign_indexation(e)
      [] e.lhs.type = "Operator" /\ e.lhs.operator = "$attr" -> assign_member(e)
      [] e.lhs.type = "List" -> assign_list(e)
      [] OTHER -> Throw(e, "ValueError")

\* for identifier, return_old in zip(reversed(chain[:-1]), reversed(orders)):
\* the target at position i of the chain receives rhs.
AssignmentNode_chain(e, node, i, rhs, env) ==
    Assign(Push(e, [f |-> "Assignment", node |-> node, i |-> i, env |-> env]),
           node.chain_of_assignments[i], rhs, node.chain_of_orders[i], env)

AssignmentNode_evaluate(e) ==
    LET k == Len(e.node.chain_of_assignments) - 1
    IN IF k < 1 THEN Throw(e, "Unmodelled")
       ELSE AssignmentNode_chain(e, e.node, k,
                                 RhsNode(e.node.chain_of_assignments[k + 1]), e.env)

\* A chain that hands the expression, not its value, to the next target.
AssignmentNode_resume_reevaluate(e, fr) ==
    IF fr.i <= 1 THEN Return(e, e.v)
    ELSE AssignmentNode_chain(
             e, fr.node, fr.i - 1,
             RhsNode(fr.node.chain_of_assignments[Len(fr.node.chain_of_assignments)]),
             fr.env)

AssignmentNode_resume(e, fr) ==
    IF fr.i <= 1 THEN Return(e, e.v)
    ELSE AssignmentNode_chain(e, fr.node, fr.i - 1, RhsVal(e.v), fr.env)

\* except ValueError: raise DIRuntimeSyntaxError; except IndexError: raise DIIndexError
AssignmentNode_except(e, fr) ==
    IF e.err = "ValueError" THEN Throw(e, "DIRuntimeSyntaxError")
    ELSE IF e.err = "IndexError" THEN Throw(e, "DIIndexError")
    ELSE e

-----------------------------------------------------------------------------
(* OperatorNode.                                                           *)

\* for operand in self.operands[:-1], at operand i; then the last operand.
evaluate_or_loop(e, node, i, env) ==
    IF i >= Len(node.operands) THEN Eval(e, node.operands[Len(node.operands)], env)
    ELSE Eval(Push(e, [f |-> "or", node |-> node, i |-> i, env |-> env]),
              node.operands[i], env)

evaluate_or(e) == evaluate_or_loop(e, e.node, 1, e.env)

evaluate_or_resume(e, fr) ==
    IF Truthy(e.v, e.heap) THEN Return(e, e.v)
    ELSE evaluate_or_loop(e, fr.node, fr.i + 1, fr.env)

\* for operand in self.operands, at operand i: the loop runs over every
\* operand, the last included, and the last operand is then evaluated again.
evaluate_and_loop(e, node, i, env) ==
    IF i > Len(node.operands) THEN Eval(e, node.operands[Len(node.operands)], env)
    ELSE Eval(Push(e, [f |-> "and", node |-> node, i |-> i, env |-> env]),
              node.operands[i], env)

evaluate_and(e) == evaluate_and_loop(e, e.node, 1, e.env)

evaluate_and_resume(e, fr) ==
    IF ~Truthy(e.v, e.heap) THEN Return(e, e.v)
    ELSE evaluate_and_loop(e, fr.node, fr.i + 1, fr.env)

\* base ** exponent on host values.
Power(x, y, st) ==
    IF IsNum(x) /\ IsNum(y)
    THEN IF NumOf(y) = 0 THEN Ok(st, VInt(1))
         ELSE IF NumOf(y) > 0 THEN Ok(st, VInt(NumOf(x) ^ NumOf(y)))
         ELSE IF NumOf(x) = 0 THEN Raise(st, "ZeroDivisionError")
         ELSE Raise(st, "Unmodelled")
    ELSE IF x.t = "list" THEN Raise(st, "Unmodelled")
    ELSE Raise(st, "TypeError")

\* for operand in reversed(self.operands[:-1]), at operand i
evaluate_power_loop(e, node, i, value_, env) ==
    IF i < 1 THEN Return(e, value_)
    ELSE Eval(Push(e, [f |-> "power", node |-> node, i |-> i, value |-> value_,
                       env |-> env, last |-> FALSE]),
              node.operands[i], env)

evaluate_power(e) ==
    Eval(Push(e, [f |-> "power", node |-> e.node, i |-> Len(e.node.operands),
                  value |-> Null, env |-> e.env, last |-> TRUE]),
         e.node.operands[Len(e.node.operands)], e.env)

evaluate_power_resume(e, fr) ==
    IF fr.last THEN evaluate_power_loop(e, fr.node, fr.i - 1, e.v, fr.env)
    ELSE LET q == Power(e.v, fr.value, e)
         IN IF Failed(q) THEN Then(q)
            ELSE evaluate_power_loop(q.st, fr.node, fr.i - 1, q.v, fr.env)

\* zip(self.params, params, strict=True): the common prefix is bound before
\* the length mismatch is found.
RECURSIVE BindParams(_, _, _, _, _)
BindParams(params, args, i, env, st) ==
    IF i > Len(params) \/ i > Len(args) THEN st
    ELSE BindParams(params, args, i + 1, env,
                    DictSet(st, env, params[i].name, args[i]))

\* A call that starts from the dict as it was when the declaration was
\* evaluated.
CallEnvironment_declared(fo, st) == fo.snap

\* The environment a call starts from: environment.copy(), where `environment`
\* is the dict the declaration was evaluated in, as it is when the call is made.
CallEnvironment(fo, st) == EnvOf(st, fo.env)

\* A call that binds and runs in `environment` itself; the copy is unused.
FunctionDeclarationNode_func_shared(e, fo, args, fr) ==
    LET e1 == BindParams(fo.params, args, 1, fo.env,
                         Alloc(e, DictObj(CallEnvironment(fo, e))))
    IN IF Len(fo.params) # Len(args) THEN Throw(Push(e1, fr), "ValueError")
       ELSE EvalScope(Push(e1, fr), fo.body, fo.env, TRUE)

\* FunctionDeclarationNode.evaluate: the closure `func`, called with `args`;
\* fr is the activation of the call.
FunctionDeclarationNode_func(e, fo, args, fr) ==
    LET environment_copy == NewAddr(e)
        e1 == BindParams(fo.params, args, 1, environment_copy,
                         Alloc(e, DictObj(CallEnvironment(fo, e))))
    IN IF Len(fo.params) # Len(args) THEN Throw(Push(e1, fr), "ValueError")
       ELSE EvalScope(Push(e1, fr), fo.body, environment_copy, TRUE)

\* return self.body.evaluate(environment_copy)
FunctionDeclarationNode_func_return(e, fr) == e.v

\* except ValueError: raise DIFunctionArgsCountError
FunctionDeclarationNode_func_except(kind) ==
    IF kind = "ValueError" THEN "DIFunctionArgsCountError" ELSE kind

\* A class call whose body flushes like any other scope.
ClassDeclarationNode_func_flush(e, fo, args, fr) ==
    LET env == NewAddr(e)
        e1 == BindParams(fo.params, args, 1, env,
                         Alloc(e, DictObj(CallEnvironment(fo, e))))
    IN IF Len(fo.params) # Len(args) THEN Throw(Push(e1, fr), "ValueError")
       ELSE EvalScope(Push(e1, fr), fo.body, env, TRUE)

\* ClassDeclarationNode.evaluate: the closure `func`, called with `args`.
ClassDeclarationNode_func(e, fo, args, fr) ==
    LET env == NewAddr(e)
        e1 == BindParams(fo.params, args, 1, env,
                         Alloc(e, DictObj(CallEnvironment(fo, e))))
    IN IF Len(fo.params) # Len(args) THEN Throw(Push(e1, fr), "ValueError")
       ELSE EvalScope(Push(e1, fr), fo.body, env, FALSE)

\* return env
ClassDeclarationNode_func_return(e, fr) == VDict(fr.callee)

\* A declaration that captures a copy of the environment.
FunctionDeclarationNode_evaluate_copy(e) ==
    LET copy == NewAddr(e)
        e1 == Alloc(e, DictObj(EnvOf(e, e.env)))
    IN Return(Alloc(e1, FuncObj(FALSE, copy, e.node, EnvOf(e, e.env))),
              VFunc(NewAddr(e1)))

\* def func(params): ...; return func.  The closure keeps `environment`, the
\* dict itself; snap records what the dict held at this moment.
FunctionDeclarationNode_evaluate(e) ==
    Return(Alloc(e, FuncObj(FALSE, e.env, e.node, EnvOf(e, e.env))), VFunc(NewAddr(e)))

ClassDeclarationNode_evaluate(e) ==
    Return(Alloc(e, FuncObj(TRUE, e.env, e.node, EnvOf(e, e.env))), VFunc(NewAddr(e)))

\* value(args): the call of the closure, with its record in the log.
Call(e, fr) ==
    LET fo == e.heap[fr.value.a]
        callee == NewAddr(e)
        e1 == Emit(e, [ev |-> "call", f |-> fr.value.a, cls |-> fo.cls,
                       caller |-> fr.env, callee |-> callee,
                       params |-> fo.params, args |-> fr.args,
                       callerBefore |-> EnvOf(e, fr.env),
                       closure |-> EnvOf(e, fo.env), snap |-> fo.snap])
        act == [f |-> "call", node |-> fr.node, i |-> fr.i, env |-> fr.env,
                callee |-> callee, call |-> Len(e1.log), cls |-> fo.cls]
    IN IF fo.cls THEN ClassDeclarationNode_func(e1, fo, fr.args, act)
       ELSE FunctionDeclarationNode_func(e1, fo, fr.args, act)

\* for operand in self.operands[1:], at group i with `value` the callee
evaluate_func_call_loop(e, node, i, value_, env) ==
    IF i > Len(node.operands) THEN Return(e, value_)
    ELSE IF value_.t # "func" THEN Throw(e, "DITypeError")
    ELSE LET fr == [f |-> "func_call", node |-> node, i |-> i, j |-> 1,
                    value |-> value_, args |-> <<>>, env |-> env]
         IN IF node.operands[i] = <<>> THEN Call(e, fr)
            ELSE Eval(Push(e, fr), node.operands[i][1], env)

evaluate_func_call(e) ==
    Eval(Push(e, [f |-> "func_call", node |-> e.node, i |-> 1, j |-> 1,
                  value |-> Null, args |-> <<>>, env |-> e.env]),
         e.node.operands[1], e.env)

\* [o.evaluate(environment) for o in operand], after argument fr.j
evaluate_func_call_resume(e, fr) ==
    IF fr.i = 1 THEN evaluate_func_call_loop(e, fr.node, 2, e.v, fr.env)
    ELSE LET fr1 == [fr EXCEPT !.args = Append(@, e.v), !.j = @ + 1]
         IN IF fr1.j > Len(fr.node.operands[fr.i]) THEN Call(e, fr1)
            ELSE Eval(Push(e, fr1), fr.node.operands[fr.i][fr1.j], fr.env)

\* A return that writes the callee's values of the caller's names back.
Call_resume_write_back(e, fr) ==
    LET result == IF fr.cls THEN ClassDeclarationNode_func_return(e, fr)
                  ELSE FunctionDeclarationNode_func_return(e, fr)
        caller == EnvOf(e, fr.env)
        callee == EnvOf(e, fr.callee)
        e0 == [e EXCEPT !.heap[fr.env].d =
                   [n \in DOMAIN caller |->
                       IF n \in DOMAIN callee THEN callee[n] ELSE caller[n]]
                   @@ EmptyDict]
        e1 == Emit(e0, [ev |-> "return", call |-> fr.call, caller |-> fr.env,
                        callee |-> fr.callee, callerAfter |-> EnvOf(e0, fr.env),
                        calleeAfter |-> EnvOf(e0, fr.callee), err |-> "",
                        v |-> result])
    IN evaluate_func_call_loop(e1, fr.node, fr.i + 1, result, fr.env)

\* The closure returned e.v.
Call_resume(e, fr) ==
    LET result == IF fr.cls THEN ClassDeclarationNode_func_return(e, fr)
                  ELSE FunctionDeclarationNode_func_return(e, fr)
        e1 == Emit(e, [ev |-> "return", call |-> fr.call, caller |-> fr.env,
                       callee |-> fr.callee, callerAfter |-> EnvOf(e, fr.env),
                       calleeAfter |-> EnvOf(e, fr.callee), err |-> "",
                       v |-> result])
    IN evaluate_func_call_loop(e1, fr.node, fr.i + 1, result, fr.env)

\* The closure raised e.err.
Call_except(e, fr) ==
    LET kind == IF fr.cls THEN e.err ELSE FunctionDeclarationNode_func_except(e.err)
    IN Throw(Emit(e, [ev |-> "return", call |-> fr.call, caller |-> fr.env,
                      callee |-> fr.callee, callerAfter |-> EnvOf(e, fr.env),
                      calleeAfter |-> EnvOf(e, fr.callee), err |-> kind,
                      v |-> Null]),
             kind)

RECURSIVE Flatten(_)
Flatten(groups) == IF groups = <<>> THEN <<>> ELSE Head(groups) \o Flatten(Tail(groups))

\* for index in chain.from_iterable(indexers), at index i
evaluate_indexation_loop(e, indexers, i, value_, env) ==
    IF i > Len(indexers) THEN Return(e, value_)
    ELSE Eval(Push(e, [f |-> "indexation", indexers |-> indexers, i |-> i,
                       value |-> value_, env |-> env, primary |-> FALSE]),
              indexers[i], env)

evaluate_indexation(e) ==
    Eval(Push(e, [f |-> "indexation", indexers |-> Flatten(Tail(e.node.operands)),
                  i |-> 0, value |-> Null, env |-> e.env, primary |-> TRUE]),
         e.node.operands[1], e.env)

evaluate_indexation_resume(e, fr) ==
    IF fr.primary THEN evaluate_indexation_loop(e, fr.indexers, 1, e.v, fr.env)
    ELSE LET r == Subscript(fr.value, e.v, e)
         IN IF Failed(r) THEN ThenExcept(r, "IndexError", "DIIndexError")
            ELSE evaluate_indexation_loop(r.st, fr.indexers, fr.i + 1, r.v, fr.env)

\* except IndexError: raise DIIndexError, around the loop only.
evaluate_indexation_except(e, fr) ==
    IF ~fr.primary /\ e.err = "IndexError" THEN Throw(e, "DIIndexError") ELSE e

evaluate_member_access(e) ==
    Eval(Push(e, [f |-> "member_access", node |-> e.node]), e.node.operands[1], e.env)

evaluate_member_access_resume(e, fr) ==
    ThenExcept(MemberWalk(e.v, Tail(fr.node.operands), 1, e),
               "IndexError", "DIIndexError")

OperatorNode_evaluate(e) ==
    CASE e.node.operator = "or" -> evaluate_or(e)
      [] e.node.operator = "and" -> evaluate_and(e)
      [] e.node.operator = "**" -> evaluate_power(e)
      [] e.node.operator \in {"^", "&", "|"} -> Throw(e, "Unmodelled")
      [] e.node.operator = "$func" -> evaluate_func_call(e)
      [] e.node.operator = "$index" -> evaluate_indexation(e)
      [] e.node.operator = "$attr" -> evaluate_member_access(e)
      [] OTHER -> Return(e, Null)

-----------------------------------------------------------------------------
(* ComparisonNode, LeftPolyOperatorNode, UnaryOperatorNode, ListNode and   *)
(* the leaves.                                                             *)

\* for op, (lhs_, rhs_) in zip(operators, pairwise(operands)), at pair i:
\* both operands of every pair are evaluated.
ComparisonNode_pair(e, node, i, env) ==
    IF i > Len(node.operators) \/ i + 1 > Len(node.operands)
    THEN Return(e, VBool(TRUE))
    ELSE Eval(Push(e, [f |-> "Comparison", node |-> node, i |-> i, env |-> env,
                       has_lhs |-> FALSE, lhs |-> Null]),
              node.operands[i], env)

ComparisonNode_evaluate(e) == ComparisonNode_pair(e, e.node, 1, e.env)

ComparisonNode_resume(e, fr) ==
    IF ~fr.has_lhs
    THEN Eval(Push(e, [fr EXCEPT !.has_lhs = TRUE, !.lhs = e.v]),
              fr.node.operands[fr.i + 1], fr.env)
    ELSE LET result == Compare(fr.node.operators[fr.i], fr.lhs, e.v, e)
         IN IF Failed(result) THEN Then(result)
            ELSE IF ~Truthy(result.v, e.heap) THEN Return(e, VBool(FALSE))
            ELSE ComparisonNode_pair(e, fr.node, fr.i + 1, fr.env)

\* One step of the left fold, with the handlers of each operator.
LeftPoly_apply(op, lhs, rhs, st) ==
    IF op \in {"+", "-", "*"} THEN Arith(op, lhs, rhs, st)
    ELSE IF op \in {"/", "//", "%"}
    THEN LET r == Arith(op, lhs, rhs, st)
         IN IF r.st.err = "ZeroDivisionError" THEN Raise(r.st, "DIZeroDivisionError")
            ELSE r
    ELSE IF op \in {"@", "<<", ">>"} THEN Raise(st, "Unmodelled")
    ELSE Ok(st, Null)

\* for op, next_value in zip(self.operators, self.operands[1:]), at pair i
LeftPolyOperatorNode_fold(e, node, i, lhs, env) ==
    IF i > Len(node.operators) \/ i + 1 > Len(node.operands) THEN Return(e, lhs)
    ELSE Eval(Push(e, [f |-> "LeftPoly", node |-> node, i |-> i, lhs |-> lhs,
                       env |-> env]),
              node.operands[i + 1], env)

LeftPolyOperatorNode_evaluate(e) ==
    Eval(Push(e, [f |-> "LeftPoly", node |-> e.node, i |-> 0, lhs |-> Null,
                  env |-> e.env]),
         e.node.operands[1], e.env)

LeftPolyOperatorNode_resume(e, fr) ==
    IF fr.i = 0 THEN LeftPolyOperatorNode_fold(e, fr.node, 1, e.v, fr.env)
    ELSE LET r == LeftPoly_apply(fr.node.operators[fr.i], fr.lhs, e.v, e)
         IN IF Failed(r) THEN Then(r)
            ELSE LeftPolyOperatorNode_fold(r.st, fr.node, fr.i + 1, r.v, fr.env)

\* -x on a host value; ListWrapper.__neg__ negates element by element.
RECURSIVE Negate(_, _)
RECURSIVE NegateEach(_, _, _, _)
NegateEach(xs, i, st, acc) ==
    IF i > Len(xs) THEN Ok(Alloc(st, ListObj(acc)), VList(NewAddr(st)))
    ELSE LET r == Negate(xs[i], st)
         IN IF Failed(r) THEN r ELSE NegateEach(xs, i + 1, r.st, Append(acc, r.v))
Negate(v, st) ==
    IF IsNum(v) THEN Ok(st, VInt(-NumOf(v)))
    ELSE IF v.t = "list" THEN NegateEach(st.heap[v.a].c, 1, st, <<>>)
    ELSE Raise(st, "TypeError")

\* An operator outside the five reaches `raise NotImplemented`.
UnaryOperatorNode_evaluate(e) ==
    IF e.node.operator \notin {"-", "+", "~", "not", "#"} THEN Throw(e, "TypeError")
    ELSE Eval(Push(e, [f |-> "Unary", node |-> e.node]), e.node.operand, e.env)

UnaryOperatorNode_resume(e, fr) ==
    CASE fr.node.operator = "-" -> Then(Negate(e.v, e))
      [] fr.node.operator = "+" -> Return(e, e.v)
      [] fr.node.operator = "~" -> Throw(e, "Unmodelled")
      [] fr.node.operator = "not" -> Return(e, VBool(~Truthy(e.v, e.heap)))
      [] fr.node.operator = "#" ->
           IF HasLen(e.v) THEN Return(e, VInt(LenOf(e.v, e.heap)))
           ELSE Throw(e, "TypeError")

\* for e in self.elements, at element i; an ellipsis element extends the result.
ListNode_elements(e, node, i, result, env) ==
    IF i > Len(node.elements)
    THEN Return(Alloc(e, ListObj(result)), VList(NewAddr(e)))
    ELSE Eval(Push(e, [f |-> "List", node |-> node, i |-> i, result |-> result,
                       env |-> env]),
              IF node.elements[i].type = "EllipsisOperator"
              THEN node.elements[i].elements ELSE node.elements[i],
              env)

ListNode_evaluate(e) == ListNode_elements(e, e.node, 1, <<>>, e.env)

ListNode_resume(e, fr) ==
    IF fr.node.elements[fr.i].type = "EllipsisOperator"
    THEN IF e.v.t \in {"list", "str"}
         THEN ListNode_elements(e, fr.node, fr.i + 1,
                                fr.result \o Iterate(e.v, e.heap), fr.env)
         ELSE IF e.v.t = "dict" THEN Throw(e, "Unmodelled")
         ELSE Throw(e, "TypeError")
    ELSE ListNode_elements(e, fr.node, fr.i + 1, Append(fr.result, e.v), fr.env)

IdentifierNode_evaluate(e) ==
    IF e.node.name \in DOMAIN EnvOf(e, e.env)
    THEN Return(e, EnvOf(e, e.env)[e.node.name])
    ELSE Throw(e, "DINameError")

\* node.evaluate(environment) is entered.
Evaluate(e) ==
    CASE e.node.type = "Scope" -> ScopeNode_evaluate(e)
      [] e.node.type = "IfElse" -> IfElseNode_evaluate(e)
      [] e.node.type = "While" -> WhileNode_evaluate(e)
      [] e.node.type = "Assignment" -> AssignmentNode_evaluate(e)
      [] e.node.type = "Operator" -> OperatorNode_evaluate(e)
      [] e.node.type = "Comparison" -> ComparisonNode_evaluate(e)
      [] e.node.type = "LeftPolyOperator" -> LeftPolyOperatorNode_evaluate(e)
      [] e.node.type = "UnaryOperator" -> UnaryOperatorNode_evaluate(e)
      [] e.node.type = "FunctionDeclaration" -> FunctionDeclarationNode_evaluate(e)
      [] e.node.type = "ClassDeclaration" -> ClassDeclarationNode_evaluate(e)
      [] e.node.type = "EllipsisOperator" -> Throw(e, "DIRuntimeSyntaxError")
      [] e.node.type = "Number" -> Return(e, VInt(e.node.number))
      [] e.node.type = "Boolean" -> Return(e, VBool(e.node.value))
      [] e.node.type = "Null" -> Return(e, Null)
      [] e.node.type = "String" -> Return(e, VStr(e.node.string))
      [] e.node.type = "List" -> ListNode_evaluate(e)
      [] e.node.type = "Identifier" -> IdentifierNode_evaluate(e)

\* The callee returned e.v to the activation fr.
Resume(e, fr) ==
    CASE fr.f = "Scope" -> ScopeNode_resume(e, fr)
      [] fr.f = "IfElse" -> IfElseNode_resume(e, fr)
      [] fr.f = "While" -> WhileNode_resume(e, fr)
      [] fr.f = "Assignment" -> AssignmentNode_resume(e, fr)
      [] fr.f = "assign_identifier" -> assign_identifier_resume(e, fr)
      [] fr.f = "assign_list" -> assign_list_resume(e, fr)
      [] fr.f = "assign_list_old" -> assign_list_old_resume(e, fr)
      [] fr.f = "assign_each" -> assign_each(e, fr)
      [] fr.f = "assign_indexation" -> assign_indexation_resume(e, fr)
      [] fr.f = "assign_indexation_last" -> assign_indexation_last_resume(e, fr)
      [] fr.f = "assign_member" -> assign_member_resume(e, fr)
      [] fr.f = "assign_member_last" -> assign_member_last_resume(e, fr)
      [] fr.f = "or" -> evaluate_or_resume(e, fr)
      [] fr.f = "and" -> evaluate_and_resume(e, fr)
      [] fr.f = "power" -> evaluate_power_resume(e, fr)
      [] fr.f = "func_call" -> evaluate_func_call_resume(e, fr)
      [] fr.f = "call" -> Call_resume(e, fr)
      [] fr.f = "indexation" -> evaluate_indexation_resume(e, fr)
      [] fr.f = "member_access" -> evaluate_member_access_resume(e, fr)
      [] fr.f = "Comparison" -> ComparisonNode_resume(e, fr)
      [] fr.f = "LeftPoly" -> LeftPolyOperatorNode_resume(e, fr)
      [] fr.f = "Unary" -> UnaryOperatorNode_resume(e, fr)
      [] fr.f = "List" -> ListNode_resume(e, fr)

\* An exception that makes every scope it leaves flush as a normal exit does.
Except_flush(e, fr) ==
    CASE fr.f = "Assignment" -> AssignmentNode_except(e, fr)
      [] fr.f = "call" -> Call_except(e, fr)
      [] fr.f = "indexation" -> evaluate_indexation_except(e, fr)
      [] fr.f = "Scope" /\ fr.flush ->
            [e EXCEPT !.heap[fr.env].d = ScopeNode_flush(@, DOMAIN fr.before)]
      [] OTHER -> e

\* The exception e.err leaves the activation fr, through its handlers if any.
Except(e, fr) ==
    CASE fr.f = "Assignment" -> AssignmentNode_except(e, fr)
      [] fr.f = "call" -> Call_except(e, fr)
      [] fr.f = "indexation" -> evaluate_indexation_except(e, fr)
      [] OTHER -> e

Evaluator_step(e) ==
    IF e.done THEN e
    ELSE IF e.mode = "eval" THEN Evaluate(e)
    ELSE IF e.mode = "assign" THEN perform_assignment(e)
    ELSE IF e.k = <<>> THEN [e EXCEPT !.done = TRUE]
    ELSE LET fr == e.k[Len(e.k)]
             popped == [e EXCEPT !.k = SubSeq(e.k, 1, Len(e.k) - 1)]
         IN IF e.mode = "ret" THEN Resume(popped, fr) ELSE Except(popped, fr)

\* k moves, one after the other, stopping once the evaluation is over.
RECURSIVE Evaluator_turns(_, _)
Evaluator_turns(e, k) ==
    IF k <= 1 THEN Evaluator_step(e)
    ELSE LET half == Evaluator_turns(e, k \div 2)
         IN IF half.done THEN half
            ELSE Evaluator_turns(half, k - (k \div 2))

-----------------------------------------------------------------------------
(* Lexer.  A source text is a sequence of one-character strings; `i` is    *)
(* the 0-based position self.i.  Line and column counters only feed error  *)
(* messages and are left out.                                              *)

Digits == {"0", "1", "2", "3", "4", "5", "6", "7", "8", "9"}
Letters ==
    {"a", "b", "c", "d", "e", "f", "g", "h", "i", "j", "k", "l", "m",
     "n", "o", "p", "q", "r", "s", "t", "u", "v", "w", "x", "y", "z",
     "A", "B", "C", "D", "E", "F", "G", "H", "I", "J", "K", "L", "M",
     "N", "O", "P", "Q", "R", "S", "T", "U", "V", "W", "X", "Y", "Z"}
DigitValue ==
    [c \in Digits |-> CASE c = "0" -> 0 [] c = "1" -> 1 [] c = "2" -> 2 [] c = "3" -> 3
                        [] c = "4" -> 4 [] c = "5" -> 5 [] c = "6" -> 6 [] c = "7" -> 7
                        [] c = "8" -> 8 [] c = "9" -> 9]

\* None, as returned by curr_char and next_char past the end of the text.
NoChar == ""
curr_char(text, i) == IF i < Len(text) THEN text[i + 1] ELSE NoChar
next_char(text, i) == IF i < Len(text) - 1 THEN text[i + 2] ELSE NoChar

pass_forward(i, step) == i + step

Token(lex, val) == [lex |-> lex, val |-> val]
\* The result of one lexing step: a token and the new position, or an error.
Lexed(tok, i) == [tok |-> tok, i |-> i, err |-> ""]
LexError(kind) == [tok |-> Token("EMPTY", ""), i |-> 0, err |-> kind]

\* Lexer.error() builds its message from self.text[self.i].
Lexer_error(text, i) ==
    IF i < Len(text) THEN LexError("DIStaticSyntaxError") ELSE LexError("IndexError")

\* The position of the first "*\" at or after i, or -1: without one the inner
\* loop of the block comment never ends.
RECURSIVE CommentEnd(_, _)
CommentEnd(text, i) ==
    IF i >= Len(text) THEN -1
    ELSE IF curr_char(text, i) = "*" /\ next_char(text, i) = "\\" THEN i
    ELSE CommentEnd(text, pass_forward(i, 1))

RECURSIVE LineEnd(_, _)
LineEnd(text, i) ==
    IF curr_char(text, i) # NoChar /\ curr_char(text, i) # "\n"
    THEN LineEnd(text, pass_forward(i, 1))
    ELSE i

\* The new position, or -1 when the scan does not terminate.
RECURSIVE skip_comments_and_whitespace(_, _)
skip_comments_and_whitespace(text, i) ==
    IF curr_char(text, i) = NoChar THEN i
    ELSE IF curr_char(text, i) = "\\" /\ next_char(text, i) = "*"
    THEN IF CommentEnd(text, i) < 0 THEN -1
         ELSE skip_comments_and_whitespace(text, pass_forward(CommentEnd(text, i), 2))
    ELSE IF curr_char(text, i) = "#"
    THEN skip_comments_and_whitespace(
             text, pass_forward(LineEnd(text, pass_forward(i, 1)), 1))
    ELSE IF curr_char(text, i) = " "
    THEN skip_comments_and_whitespace(text, pass_forward(i, 1))
    ELSE i

RECURSIVE ParseInt(_, _)
ParseInt(cs, acc) ==
    IF cs = <<>> THEN acc ELSE ParseInt(Tail(cs), 10 * acc + DigitValue[Head(cs)])

\* The scan of lex_number in base 10: [pos, err].  Prefixed bases, a decimal
\* point and an exponent are outside the model.
RECURSIVE lex_number_scan(_, _, _)
lex_number_scan(text, i, right_pos) ==
    IF right_pos >= Len(text) THEN [pos |-> right_pos, err |-> ""]
    ELSE IF right_pos = i /\ text[right_pos + 1] = "0" /\ right_pos + 1 >= Len(text)
    THEN [pos |-> right_pos, err |-> "IndexError"]
    ELSE IF right_pos = i /\ text[right_pos + 1] = "0"
            /\ text[right_pos + 2] \in {"b", "x", "o", "q"}
    THEN [pos |-> right_pos, err |-> "Unmodelled"]
    ELSE IF text[right_pos + 1] \in Digits THEN lex_number_scan(text, i, right_pos + 1)
    ELSE IF text[right_pos + 1] = "."
    THEN [pos |-> right_pos, err |-> "Unmodelled"]
    ELSE IF text[right_pos + 1] \in {"e", "E"}
    THEN IF right_pos + 1 >= Len(text) THEN [pos |-> right_pos, err |-> "IndexError"]
         ELSE IF text[right_pos + 2] \in Digits \cup {"+", "-"}
         THEN [pos |-> right_pos, err |-> "Unmodelled"]
         ELSE [pos |-> right_pos, err |-> ""]
    ELSE [pos |-> right_pos, err |-> ""]

lex_number(text, i) ==
    LET scan == lex_number_scan(text, i, i)
    IN IF scan.err # "" THEN LexError(scan.err)
       ELSE Lexed(Token("INTEGER", ParseInt(SubSeq(text, i + 1, scan.pos), 0)),
                  pass_forward(i, scan.pos - i))

lex_operator(text, i) ==
    LET c == curr_char(text, i)
        n == next_char(text, i)
    IN CASE c \in {"+", "-"} -> Lexed(Token("OP_ADDITIVE", c), pass_forward(i, 1))
         [] c = "&" -> Lexed(Token("OP_BITWISE_AND", c), pass_forward(i, 1))
         [] c = "^" -> Lexed(Token("OP_BITWISE_XOR", c), pass_forward(i, 1))
         [] c = "|" -> Lexed(Token("OP_BITWISE_OR", c), pass_forward(i, 1))
         [] c = "~" -> Lexed(Token("OP_BITWISE_NOT", c), pass_forward(i, 1))
         [] c = "*" -> IF n = "*" THEN Lexed(Token("OP_POWER", "**"), pass_forward(i, 2))
                       ELSE Lexed(Token("OP_MULTIPLICATIVE", "*"), pass_forward(i, 1))
         [] c = "/" -> IF n = "/" THEN Lexed(Token("OP_MULTIPLICATIVE", "//"), pass_forward(i, 2))
                       ELSE Lexed(Token("OP_MULTIPLICATIVE", "/"), pass_forward(i, 1))
         [] c = "%" -> Lexed(Token("OP_MULTIPLICATIVE", "%"), pass_forward(i, 1))
         [] c = "@" -> Lexed(Token("OP_MULTIPLICATIVE", "@"), pass_forward(i, 1))
         [] c \in {"<", ">"} ->
              IF n = "=" THEN Lexed(Token("OP_COMPARISON", c \o "="), pass_forward(i, 2))
              ELSE IF n = c
              THEN \* the value is built from next_char after the move
                   IF next_char(text, pass_forward(i, 2)) = NoChar THEN LexError("TypeError")
                   ELSE Lexed(Token("OP_BITWISE_SHIFT",
                                    c \o next_char(text, pass_forward(i, 2))),
                              pass_forward(i, 2))
              ELSE Lexed(Token("OP_COMPARISON", c), pass_forward(i, 1))
         [] c = "!" /\ n = "=" -> Lexed(Token("OP_COMPARISON", "!="), pass_forward(i, 2))
         [] c = "=" /\ n = "=" -> Lexed(Token("OP_COMPARISON", "=="), pass_forward(i, 2))
         [] c = ":" /\ n = "=" -> Lexed(Token("OP_ASSIGN", ":="), pass_forward(i, 2))
         [] c = "=" /\ n = ">" -> Lexed(Token("OP_IMPLICATION", "=>"), pass_forward(i, 2))
         [] c = ":" /\ n # "=" -> Lexed(Token("OP_KEYMAP", ":"), pass_forward(i, 1))
         [] c = "?" -> Lexed(Token("OP_COALESCE", "?"), pass_forward(i, 1))
         [] c = "." ->
              IF curr_char(text, pass_forward(i, 1)) = "."
                 /\ next_char(text, pass_forward(i, 1)) = "."
              THEN Lexed(Token("OP_ELLIPSIS", "..."), pass_forward(pass_forward(i, 1), 2))
              ELSE Lexed(Token("OP_ATTRIBUTE_ACCESS", "."), pass_forward(i, 1))
         [] OTHER -> Lexer_error(text, i)

identify_word(word) ==
    IF word \in {"if", "else", "elif", "while", "function", "class", "promise"}
    THEN "KEYWORD"
    ELSE IF word \in {"and", "or", "not"} THEN "OP_LOGICAL"
    ELSE IF word \in {"true", "false"} THEN "BOOLEAN"
    ELSE IF word = "null" THEN "NULL"
    ELSE "IDENTIFIER"

RECURSIVE WordEnd(_, _, _)
WordEnd(text, i, k) ==
    IF k < Len(text)
       /\ (text[k + 1] \in Letters \/ text[k + 1] = "_" \/ (k # i /\ text[k + 1] \in Digits))
    THEN WordEnd(text, i, k + 1)
    ELSE k

lex_word(text, i) ==
    LET k == WordEnd(text, i, i)
        name == Join(SubSeq(text, i + 1, k))
    IN Lexed(Token(identify_word(name), name), pass_forward(i, k - i))

\* The loop of lex_string: the position where it stops and the escape flag.
RECURSIVE StringEnd(_, _, _)
StringEnd(text, k, escaped_backslash) ==
    IF k < Len(text) /\ (escaped_backslash \/ text[k + 1] # "\"") /\ text[k + 1] # "\n"
    THEN StringEnd(text, k + 1,
                   IF text[k + 1] = "\\" THEN ~escaped_backslash ELSE FALSE)
    ELSE [k |-> k, escaped_backslash |-> escaped_backslash]

\* The token text keeps both quotation marks.
lex_string(text, i) ==
    LET e == StringEnd(text, i + 1, FALSE)
    IN IF e.k >= Len(text) THEN LexError("IndexError")
       ELSE IF text[e.k + 1] # "\"" \/ e.escaped_backslash THEN Lexer_error(text, i)
       ELSE Lexed(Token("STRING", SubSeq(text, i + 1, e.k + 1)),
                  pass_forward(i, e.k + 1 - i))

\* Lexer.__next__ after the skip, for a position inside the text.
Lexer_next(text, i) ==
    LET c == curr_char(text, i)
    IN CASE c = "(" -> Lexed(Token("OPEN_BRACKET", "("), pass_forward(i, 1))
         [] c = ")" -> Lexed(Token("CLOSED_BRACKET", ")"), pass_forward(i, 1))
         [] c = "[" -> Lexed(Token("OPEN_SQUARE_BRACKET", "["), pass_forward(i, 1))
         [] c = "]" -> Lexed(Token("CLOSED_SQUARE_BRACKET", "]"), pass_forward(i, 1))
         [] c = "{" -> Lexed(Token("OPEN_SCOPE", "{"), pass_forward(i, 1))
         [] c = "}" -> Lexed(Token("CLOSED_SCOPE", "}"), pass_forward(i, 1))
         [] c = "," -> Lexed(Token("COMMA", ","), pass_forward(i, 1))
         [] c \in {"\n", ";"} -> Lexed(Token("END_LINE", ";"), pass_forward(i, 1))
         [] c \in Digits -> lex_number(text, i)
         [] c \in {":", "+", "-", "*", "/", "%", "=", "<", ">", "!", "@", "#", ".", "?"} ->
              lex_operator(text, i)
         [] c \in Letters \cup {"_"} -> lex_word(text, i)
         [] c = "\"" -> lex_string(text, i)
         [] OTHER -> Lexer_error(text, i)

\* One turn of `for lex in lexer`: the scanner state [i, toks, err, done]
\* after one more call of __next__.  "Hang" stands for a scan that never
\* returns.
Lexer_step(text, s) ==
    IF s.done THEN s
    ELSE LET j == skip_comments_and_whitespace(text, s.i)
         IN IF j < 0 THEN [s EXCEPT !.err = "Hang", !.done = TRUE]
            ELSE IF j = Len(text)
            THEN [s EXCEPT !.i = pass_forward(j, 1),
                           !.toks = Append(@, Token("END_OF_FILE", ""))]
            ELSE IF j > Len(text) THEN [s EXCEPT !.done = TRUE]
            ELSE LET t == Lexer_next(text, j)
                 IN IF t.err # "" THEN [s EXCEPT !.err = t.err, !.done = TRUE]
                    ELSE [s EXCEPT !.i = t.i, !.toks = Append(@, t.tok)]

\* k turns, one after the other, stopping once the scan is over.
RECURSIVE Lexer_turns(_, _, _)
Lexer_turns(text, s, k) ==
    IF k <= 1 THEN Lexer_step(text, s)
    ELSE LET half == Lexer_turns(text, s, k \div 2)
         IN IF half.done THEN half
            ELSE Lexer_turns(text, half, k - (k \div 2))

\* [lex for lex in lexer]: the token list, or the error that ends the scan.
\* Every turn but the last two moves forward, so Len(text) + 2 turns finish.
Lexer_tokens(text) ==
    Lexer_turns(text, [i |-> 0, toks |-> <<>>, err |-> "", done |-> FALSE],
                Len(text) + 2)

-----------------------------------------------------------------------------
(* Parser (src/src/parser.py).  `i` is the 0-based index self.i into the   *)
(* token list.  The rules call one another on the host stack; the model    *)
(* keeps that stack explicitly.  A state `p` of the parser holds self.i,   *)
(* the stack `k` of the rules that wait for a callee, and what runs now:   *)
(*   "call"  the method parse_<rule> is entered (arg: its arguments)       *)
(*   "ret"   the callee returned n to the rule on top of k                 *)
(* A failure (err) ends the parse: no rule catches an exception.           *)

has_curr_token(toks, i) == i < Len(toks)

is_consumable(toks, i, token_type) ==
    has_curr_token(toks, i) /\ toks[i + 1].lex = token_type

is_consumable_value(toks, i, token_type, token_value) ==
    is_consumable(toks, i, token_type) /\ toks[i + 1].val = token_value

\* Parser.error unpacks self.curr_token, and its callers format
\* self.curr_token[0] into the reason: past the last token both fail on None.
Parser_error(toks, p) ==
    [p EXCEPT !.done = TRUE,
              !.err = IF has_curr_token(toks, p.i) THEN "DIStaticSyntaxError"
                      ELSE "TypeError"]

Parser_call(p, rule) == [p EXCEPT !.mode = "call", !.rule = rule]
Parser_return(p, n) == [p EXCEPT !.mode = "ret", !.n = n]
Parser_push(p, fr) == [p EXCEPT !.k = Append(@, fr)]
get_next(p) == [p EXCEPT !.i = @ + 1]

\* while self.is_consumable(Lexemes.END_LINE): self.consume(Lexemes.END_LINE)
RECURSIVE skip_end_lines(_, _)
skip_end_lines(toks, i) ==
    IF is_consumable(toks, i, "END_LINE") THEN skip_end_lines(toks, i + 1) ELSE i

\* The binary levels of the grammar share one shape: the rule of the
\* operands (lower), the operator token (lex, and its value when the rule
\* asks for one) and the node the rule builds.
parse_assignment ==
    [lower |-> "logical_or", lex |-> "OP_ASSIGN", value |-> "", node |-> "Assignment"]
parse_logical_or ==
    [lower |-> "logical_and", lex |-> "OP_LOGICAL", value |-> "or", node |-> "or"]
parse_logical_and ==
    [lower |-> "logical_not", lex |-> "OP_LOGICAL", value |-> "and", node |-> "and"]
parse_comparison ==
    [lower |-> "bitwise_or", lex |-> "OP_COMPARISON", value |-> "", node |-> "Comparison"]
parse_bitwise_or ==
    [lower |-> "bitwise_xor", lex |-> "OP_BITWISE_OR", value |-> "", node |-> "|"]
parse_bitwise_xor ==
    [lower |-> "bitwise_and", lex |-> "OP_BITWISE_XOR", value |-> "", node |-> "^"]
parse_bitwise_and ==
    [lower |-> "bitwise_shifts", lex |-> "OP_BITWISE_AND", value |-> "", node |-> "|"]
parse_bitwise_shifts ==
    [lower |-> "additive", lex |-> "OP_BITWISE_SHIFT", value |-> "", node |-> "LeftPoly"]
parse_additive ==
    [lower |-> "multiplicative", lex |-> "OP_ADDITIVE", value |-> "", node |-> "LeftPoly"]
parse_multiplicative ==
    [lower |-> "power", lex |-> "OP_MULTIPLICATIVE", value |-> "", node |-> "LeftPoly"]
parse_power ==
    [lower |-> "unary", lex |-> "OP_POWER", value |-> "", node |-> "**"]

BinaryRules ==
    {"assignment", "logical_or", "logical_and", "comparison", "bitwise_or",
     "bitwise_xor", "bitwise_and", "bitwise_shifts", "additive",
     "multiplicative", "power"}

BinaryRule(rule) ==
    CASE rule = "assignment" -> parse_assignment
      [] rule = "logical_or" -> parse_logical_or
      [] rule = "logical_and" -> parse_logical_and
      [] rule = "comparison" -> parse_comparison
      [] rule = "bitwise_or" -> parse_bitwise_or
      [] rule = "bitwise_xor" -> parse_bitwise_xor
      [] rule = "bitwise_and" -> parse_bitwise_and
      [] rule = "bitwise_shifts" -> parse_bitwise_shifts
      [] rule = "additive" -> parse_additive
      [] rule = "multiplicative" -> parse_multiplicative
      [] rule = "power" -> parse_power

\* self.is_consumable(lex) or self.is_consumable(lex, value)
BinaryRule_consumable(toks, i, r) ==
    IF r.value = "" THEN is_consumable(toks, i, r.lex)
    ELSE is_consumable_value(toks, i, r.lex, r.value)

\* lasts.append(self.consume(Lexemes.OP_ASSIGN) == '=:')
Lasts(operators) == [j \in 1..Len(operators) |-> operators[j] = "=:"] @@ <<>>

\* The node a binary rule returns for its operands and operators.
BinaryRule_node(r, operands, operators) ==
    CASE r.node = "Assignment" -> AssignmentNode(operands, Lasts(operators))
      [] r.node = "Comparison" -> ComparisonNode(operators, operands)
      [] r.node = "LeftPoly" -> LeftPolyOperatorNode(operators, operands)
      [] OTHER -> OperatorNode(r.node, operands)

\* operand = self.parse_<lower>()
BinaryRule_call(toks, p) ==
    Parser_call(Parser_push(p, [f |-> p.rule, operands |-> <<>>, operators |-> <<>>]),
                BinaryRule(p.rule).lower)

\* The operand p.n was parsed: the first `if not self.is_consumable`, and
\* the test of the while loop after every further operand.
BinaryRule_resume(toks, p, fr) ==
    LET r == BinaryRule(fr.f)
        operands == Append(fr.operands, p.n)
    IN IF BinaryRule_consumable(toks, p.i, r)
       THEN Parser_call(
                Parser_push(get_next(p),
                            [fr EXCEPT !.operands = operands,
                                       !.operators = Append(@, toks[p.i + 1].val)]),
                r.lower)
       ELSE IF fr.operands = <<>> THEN Parser_return(p, p.n)
       ELSE Parser_return(p, BinaryRule_node(r, operands, fr.operators))

parse_expression(toks, p) ==
    Parser_call(Parser_push([p EXCEPT !.i = skip_end_lines(toks, p.i)],
                            [f |-> "expression"]),
                "assignment")

parse_expression_resume(toks, p, fr) ==
    Parser_return([p EXCEPT !.i = skip_end_lines(toks, p.i)], p.n)

parse_logical_not(toks, p) ==
    IF is_consumable_value(toks, p.i, "OP_LOGICAL", "not")
    THEN Parser_call(Parser_push(get_next(p), [f |-> "logical_not"]), "comparison")
    ELSE Parser_call(p, "comparison")

parse_logical_not_resume(toks, p, fr) ==
    Parser_return(p, UnaryOperatorNode("not", p.n))

parse_unary(toks, p) ==
    IF is_consumable(toks, p.i, "OP_ADDITIVE") \/ is_consumable(toks, p.i, "OP_INDEX")
    THEN Parser_call(Parser_push(get_next(p),
                                 [f |-> "unary", op |-> toks[p.i + 1].val]),
                     "function_call")
    ELSE IF is_consumable(toks, p.i, "OP_ELLIPSIS")
    THEN Parser_call(Parser_push(get_next(p), [f |-> "unary", op |-> "..."]),
                     "function_call")
    ELSE Parser_call(p, "function_call")

parse_unary_resume(toks, p, fr) ==
    IF fr.op = "..." THEN Parser_return(p, EllipsisOperatorNode(p.n))
    ELSE Parser_return(p, UnaryOperatorNode(fr.op, p.n))

\* The test of `while not self.is_consumable(closing)` in
\* _parse_comma_separated_args and in parse_list, and the final
\* self.consume(closing).
comma_separated_args_loop(toks, p, fr) ==
    IF is_consumable(toks, p.i, fr.closing)
    THEN Parser_return(get_next(p), IF fr.list THEN ListNode(fr.res) ELSE fr.res)
    ELSE Parser_call(Parser_push(p, fr), "expression")

\* _parse_comma_separated_args(opening, closing); parse_list runs the same
\* loop and wraps the result in a ListNode.
parse_comma_separated_args(toks, p, opening, closing, list) ==
    IF ~is_consumable(toks, p.i, opening) THEN Parser_error(toks, p)
    ELSE comma_separated_args_loop(
             toks, get_next(p),
             [f |-> "comma_separated_args", closing |-> closing, res |-> <<>>,
              list |-> list])

\* res.append(self.parse_expression()) has returned p.n.
parse_comma_separated_args_resume(toks, p, fr) ==
    LET fr1 == [fr EXCEPT !.res = Append(@, p.n)]
    IN IF is_consumable(toks, p.i, fr.closing)
       THEN comma_separated_args_loop(toks, p, fr1)
       ELSE IF ~is_consumable(toks, p.i, "COMMA") THEN Parser_error(toks, p)
       ELSE comma_separated_args_loop(
                toks, [p EXCEPT !.i = skip_end_lines(toks, p.i + 1)], fr1)

parse_list(toks, p) ==
    parse_comma_separated_args(toks, p, "OPEN_SQUARE_BRACKET",
                               "CLOSED_SQUARE_BRACKET", TRUE)

\* parse_function_call and parse_indexation: the operand, then every group
\* of arguments that follows.
GroupRule(rule) ==
    IF rule = "function_call"
    THEN [lower |-> "indexation", opening |-> "OPEN_BRACKET",
          closing |-> "CLOSED_BRACKET", operator |-> "$func"]
    ELSE [lower |-> "member_access", opening |-> "OPEN_SQUARE_BRACKET",
          closing |-> "CLOSED_SQUARE_BRACKET", operator |-> "$index"]

parse_function_call(toks, p) ==
    Parser_call(Parser_push(p, [f |-> "function_call", chain_of_args |-> <<>>]),
                "indexation")

parse_indexation(toks, p) ==
    Parser_call(Parser_push(p, [f |-> "indexation", chain_of_args |-> <<>>]),
                "member_access")

\* The operand or a group of arguments was parsed.
GroupRule_resume(toks, p, fr) ==
    LET r == GroupRule(fr.f)
        chain_of_args == Append(fr.chain_of_args, p.n)
    IN IF is_consumable(toks, p.i, r.opening)
       THEN parse_comma_separated_args(
                toks, Parser_push(p, [fr EXCEPT !.chain_of_args = chain_of_args]),
                r.opening, r.closing, FALSE)
       ELSE IF fr.chain_of_args = <<>> THEN Parser_return(p, p.n)
       ELSE Parser_return(p, OperatorNode(r.operator, chain_of_args))

\* while self.is_consumable(OP_ATTRIBUTE_ACCESS): the members after the operand
RECURSIVE Members(_, _, _)
Members(toks, p, chain_of_args) ==
    IF ~is_consumable(toks, p.i, "OP_ATTRIBUTE_ACCESS")
    THEN Parser_return(p, OperatorNode("$attr", chain_of_args))
    ELSE IF ~is_consumable(toks, p.i + 1, "IDENTIFIER")
    THEN Parser_error(toks, get_next(p))
    ELSE Members(toks, [p EXCEPT !.i = @ + 2],
                 Append(chain_of_args, IdentifierNode(toks[p.i + 2].val)))

parse_member_access(toks, p) ==
    Parser_call(Parser_push(p, [f |-> "member_access"]), "primary")

parse_member_access_resume(toks, p, fr) ==
    IF ~is_consumable(toks, p.i, "OP_ATTRIBUTE_ACCESS") THEN Parser_return(p, p.n)
    ELSE Members(toks, p, <<p.n>>)

\* The test of `while not self.is_consumable(closing)` in parse_program and
\* parse_scope, and what follows the loop.
Instructions(toks, p, fr) ==
    IF is_consumable(toks, p.i, fr.closing)
    THEN Parser_return(get_next(p), ScopeNode(fr.instructions))
    ELSE Parser_call(Parser_push(p, fr), "expression")

\* A program of one expression: what follows it is not parsed.
parse_program_single(toks, p) ==
    Parser_call(Parser_push(p, [f |-> "scope", closing |-> "",
                                instructions |-> <<>>, braces |-> FALSE]),
                "expression")

parse_program(toks, p) ==
    Instructions(toks, p, [f |-> "scope", closing |-> "END_OF_FILE",
                           instructions |-> <<>>, braces |-> TRUE])

parse_scope(toks, p) ==
    IF ~is_consumable(toks, p.i, "OPEN_SCOPE")
    THEN Parser_call(Parser_push(p, [f |-> "scope", closing |-> "",
                                     instructions |-> <<>>, braces |-> FALSE]),
                     "expression")
    ELSE Instructions(toks, get_next(p),
                      [f |-> "scope", closing |-> "CLOSED_SCOPE",
                       instructions |-> <<>>, braces |-> TRUE])

parse_scope_resume(toks, p, fr) ==
    IF ~fr.braces THEN Parser_return(p, ScopeNode(<<p.n>>))
    ELSE Instructions(toks, p, [fr EXCEPT !.instructions = Append(@, p.n)])

\* parse_condition, entered on behalf of the activation fr
parse_condition(toks, p, fr) ==
    IF ~is_consumable(toks, p.i, "OPEN_BRACKET") THEN Parser_error(toks, p)
    ELSE Parser_call(Parser_push(Parser_push(get_next(p), fr), [f |-> "condition"]),
                     "logical_or")

parse_condition_resume(toks, p, fr) ==
    IF ~is_consumable(toks, p.i, "CLOSED_BRACKET") THEN Parser_error(toks, p)
    ELSE Parser_return(get_next(p), p.n)

parse_if(toks, p) ==
    IF ~is_consumable(toks, p.i, "KEYWORD") THEN Parser_error(toks, p)
    ELSE parse_condition(toks, get_next(p),
                         [f |-> "if", at |-> "condition", conditions |-> <<>>,
                          branch_scopes |-> <<>>])

\* add_branch(self.parse_condition(), self.parse_scope()) and the tests
\* for `elif` and `else`.
parse_if_resume(toks, p, fr) ==
    CASE fr.at = "condition" ->
           Parser_call(Parser_push(p, [fr EXCEPT !.at = "scope",
                                                 !.conditions = Append(@, p.n)]),
                       "scope")
      [] fr.at = "scope" ->
           LET fr1 == [fr EXCEPT !.branch_scopes = Append(@, p.n)]
           IN IF is_consumable_value(toks, p.i, "KEYWORD", "elif")
              THEN parse_condition(toks, get_next(p), [fr1 EXCEPT !.at = "condition"])
              ELSE IF is_consumable_value(toks, p.i, "KEYWORD", "else")
              THEN Parser_call(Parser_push(get_next(p), [fr1 EXCEPT !.at = "else"]),
                               "scope")
              ELSE Parser_return(p, IfElseNode(fr1.conditions, fr1.branch_scopes,
                                               NoNode))
      [] fr.at = "else" ->
           Parser_return(p, IfElseNode(fr.conditions, fr.branch_scopes, p.n))

parse_while(toks, p) ==
    IF ~is_consumable(toks, p.i, "KEYWORD") THEN Parser_error(toks, p)
    ELSE parse_condition(toks, get_next(p),
                         [f |-> "while", at |-> "condition", condition |-> NoNode])

parse_while_resume(toks, p, fr) ==
    IF fr.at = "condition"
    THEN Parser_call(Parser_push(p, [fr EXCEPT !.at = "scope", !.condition = p.n]),
                     "scope")
    ELSE Parser_return(p, WhileNode(fr.condition, p.n))

\* The parameter list of parse_function and parse_class after the "(": the
\* state after the ")", with the parameters in n.
RECURSIVE Params(_, _, _)
Params(toks, p, params) ==
    IF is_consumable(toks, p.i, "CLOSED_BRACKET") THEN Parser_return(get_next(p), params)
    ELSE IF ~is_consumable(toks, p.i, "IDENTIFIER") THEN Parser_error(toks, p)
    ELSE LET q == get_next(p)
             params1 == Append(params, IdentifierNode(toks[p.i + 1].val))
         IN IF is_consumable(toks, q.i, "CLOSED_BRACKET")
            THEN Parser_return(get_next(q), params1)
            ELSE IF ~is_consumable(toks, q.i, "COMMA") THEN Parser_error(toks, q)
            ELSE Params(toks, [q EXCEPT !.i = skip_end_lines(toks, q.i + 1)], params1)

\* parse_function and parse_class up to the body.
Declaration(toks, p, f) ==
    IF ~is_consumable(toks, p.i, "KEYWORD") THEN Parser_error(toks, p)
    ELSE IF ~is_consumable(toks, p.i + 1, "OPEN_BRACKET")
    THEN Parser_error(toks, get_next(p))
    ELSE LET q == Params(toks, [p EXCEPT !.i = @ + 2], <<>>)
         IN IF q.err # "" THEN q
            ELSE Parser_call(Parser_push(q, [f |-> f, params |-> q.n]), "scope")

parse_class(toks, p) == Declaration(toks, p, "class")

parse_class_resume(toks, p, fr) ==
    Parser_return(p, ClassDeclarationNode(fr.params, p.n))

parse_function(toks, p) == Declaration(toks, p, "function")

parse_function_resume(toks, p, fr) ==
    Parser_return(p, FunctionDeclarationNode(fr.params, p.n))

\* A BOOLEAN token is consumed as Lexemes.NUMBER, which it is not.
parse_primary(toks, p) ==
    LET i == p.i
    IN CASE is_consumable(toks, i, "INTEGER") ->
              Parser_return(get_next(p), NumberNode(toks[i + 1].val))
         [] is_consumable(toks, i, "FLOAT") ->
              Parser_return(get_next(p), NumberNode(toks[i + 1].val))
         [] is_consumable(toks, i, "STRING") ->
              Parser_return(get_next(p), StringNode(toks[i + 1].val))
         [] is_consumable(toks, i, "BOOLEAN") ->
              IF ~is_consumable(toks, i, "NUMBER") THEN Parser_error(toks, p)
              ELSE Parser_return(get_next(p), BooleanNode(toks[i + 1].val = "true"))
         [] is_consumable(toks, i, "NULL") -> Parser_return(get_next(p), NullNode)
         [] is_consumable(toks, i, "OPEN_SQUARE_BRACKET") -> parse_list(toks, p)
         [] is_consumable(toks, i, "OPEN_BRACKET") ->
              Parser_call(Parser_push(get_next(p), [f |-> "primary"]), "expression")
         [] is_consumable(toks, i, "IDENTIFIER") ->
              Parser_return(get_next(p), IdentifierNode(toks[i + 1].val))
         [] is_consumable(toks, i, "OPEN_SCOPE") -> parse_scope(toks, p)
         [] is_consumable_value(toks, i, "KEYWORD", "if") -> parse_if(toks, p)
         [] is_consumable_value(toks, i, "KEYWORD", "while") -> parse_while(toks, p)
         [] is_consumable_value(toks, i, "KEYWORD", "function") -> parse_function(toks, p)
         [] is_consumable_value(toks, i, "KEYWORD", "class") -> parse_class(toks, p)
         [] OTHER -> Parser_error(toks, p)

\* sub_result = self.parse_expression(); self.consume(Lexemes.CLOSED_BRACKET)
parse_primary_resume(toks, p, fr) ==
    IF ~is_consumable(toks, p.i, "CLOSED_BRACKET") THEN Parser_error(toks, p)
    ELSE Parser_return(get_next(p), p.n)

\* The method parse_<p.rule> is entered.
Parser_enter(toks, p) ==
    CASE p.rule \in BinaryRules -> BinaryRule_call(toks, p)
      [] p.rule = "program" -> parse_program(toks, p)
      [] p.rule = "expression" -> parse_expression(toks, p)
      [] p.rule = "logical_not" -> parse_logical_not(toks, p)
      [] p.rule = "unary" -> parse_unary(toks, p)
      [] p.rule = "function_call" -> parse_function_call(toks, p)
      [] p.rule = "indexation" -> parse_indexation(toks, p)
      [] p.rule = "member_access" -> parse_member_access(toks, p)
      [] p.rule = "primary" -> parse_primary(toks, p)
      [] p.rule = "scope" -> parse_scope(toks, p)

\* The callee returned p.n to the rule fr.
Parser_resume(toks, p, fr) ==
    CASE fr.f \in BinaryRules -> BinaryRule_resume(toks, p, fr)
      [] fr.f = "expression" -> parse_expression_resume(toks, p, fr)
      [] fr.f = "logical_not" -> parse_logical_not_resume(toks, p, fr)
      [] fr.f = "unary" -> parse_unary_resume(toks, p, fr)
      [] fr.f = "comma_separated_args" -> parse_comma_separated_args_resume(toks, p, fr)
      [] fr.f \in {"function_call", "indexation"} -> GroupRule_resume(toks, p, fr)
      [] fr.f = "member_access" -> parse_member_access_resume(toks, p, fr)
      [] fr.f = "primary" -> parse_primary_resume(toks, p, fr)
      [] fr.f = "scope" -> parse_scope_resume(toks, p, fr)
      [] fr.f = "condition" -> parse_condition_resume(toks, p, fr)
      [] fr.f = "if" -> parse_if_resume(toks, p, fr)
      [] fr.f = "while" -> parse_while_resume(toks, p, fr)
      [] fr.f = "class" -> parse_class_resume(toks, p, fr)
      [] fr.f = "function" -> parse_function_resume(toks, p, fr)

Parser_step(toks, p) ==
    IF p.done THEN p
    ELSE IF p.mode = "call" THEN Parser_enter(toks, p)
    ELSE IF p.k = <<>> THEN [p EXCEPT !.done = TRUE]
    ELSE Parser_resume(toks, [p EXCEPT !.k = SubSeq(p.k, 1, Len(p.k) - 1)],
                       p.k[Len(p.k)])

\* k moves, one after the other, stopping once the parse is over.
RECURSIVE Parser_turns(_, _, _)
Parser_turns(toks, p, k) ==
    IF k <= 1 THEN Parser_step(toks, p)
    ELSE LET half == Parser_turns(toks, p, k \div 2)
         IN IF half.done THEN half
            ELSE Parser_turns(toks, half, k - (k \div 2))

-----------------------------------------------------------------------------
(* Source texts fed to the interpreter.  Each is the text in the comment   *)
(* above it, with decimal numerals in place of the parameters.             *)

MaxOps == 2      \* facade operations in one run
MaxRuns == 1     \* the same, in the suites whose sources are run one by one
MaxCalls == 3    \* the same, in the suite that clears the environment
MaxVal == 2      \* the values v of the parametric sources are 1..MaxVal
MaxFib == 7      \* fib(k) is run for k in 0..MaxFib
MaxArgs == 3     \* calls are made with 0..MaxArgs actual arguments
MaxChain == 3    \* assignment chains have 1..MaxChain targets
MaxPattern == 3  \* list patterns have 1..MaxPattern targets
MaxLen == 4      \* unpacked lists have 0..MaxLen elements
MaxTurns == 8192 \* moves of the parser, and of the evaluator, in one run

DigitChar == [d \in 0..9 |-> CHOOSE c \in Digits : DigitValue[c] = d]
RECURSIVE Numeral(_)
Numeral(k) ==
    IF k < 10 THEN <<DigitChar[k]>> ELSE Numeral(k \div 10) \o <<DigitChar[k % 10]>>

\* "j, j+1, ..., n"
RECURSIVE ArgList(_, _)
ArgList(j, n) ==
    IF j > n THEN <<>>
    ELSE Numeral(j) \o (IF j < n THEN <<",", " ">> ELSE <<>>) \o ArgList(j + 1, n)

\* "tj := ... := tk := "
RECURSIVE ChainTargets(_, _)
ChainTargets(j, k) ==
    IF j > k THEN <<>>
    ELSE <<"t">> \o Numeral(j) \o <<" ", ":", "=", " ">> \o ChainTargets(j + 1, k)

\* a := <v>; { b := a + 1; a := b; { c := a * 2; a := c } }
Src_scope(v) ==
    <<"a", " ", ":", "=", " ">> \o Numeral(v)
    \o <<";", " ", "{", " ", "b", " ", ":", "=", " ", "a", " ", "+">>
    \o <<" ", "1", ";", " ", "a", " ", ":", "=", " ", "b", ";", " ">>
    \o <<"{", " ", "c", " ", ":", "=", " ", "a", " ", "*", " ", "2">>
    \o <<";", " ", "a", " ", ":", "=", " ", "c", " ", "}", " ", "}">>

\* { b := a + <v>; a := b; c := b }
Src_block(v) ==
    <<"{", " ", "b", " ", ":", "=", " ", "a", " ", "+", " ">> \o Numeral(v)
    \o <<";", " ", "a", " ", ":", "=", " ", "b", ";", " ", "c", " ">>
    \o <<":", "=", " ", "b", " ", "}">>

\* a := <v>; b := 0
\* if (a > 1) { d := a; b := d + a } else { e := a; b := e }
\* b
Src_branch(v) ==
    <<"a", " ", ":", "=", " ">> \o Numeral(v)
    \o <<";", " ", "b", " ", ":", "=", " ", "0", "\n", "i", "f", " ">>
    \o <<"(", "a", " ", ">", " ", "1", ")", " ", "{", " ", "d", " ">>
    \o <<":", "=", " ", "a", ";", " ", "b", " ", ":", "=", " ", "d">>
    \o <<" ", "+", " ", "a", " ", "}", " ", "e", "l", "s", "e", " ">>
    \o <<"{", " ", "e", " ", ":", "=", " ", "a", ";", " ", "b", " ">>
    \o <<":", "=", " ", "e", " ", "}", "\n", "b">>

\* i := 0; s := 0
\* while (i < <v>) { t := i + 1; if (t > 1) { w := s; s := w + t } else { s := t }; i := t }
\* s
Src_loop(v) ==
    <<"i", " ", ":", "=", " ", "0", ";", " ", "s", " ", ":", "=">>
    \o <<" ", "0", "\n", "w", "h", "i", "l", "e", " ", "(", "i", " ">>
    \o <<"<", " ">> \o Numeral(v)
    \o <<")", " ", "{", " ", "t", " ", ":", "=", " ", "i", " ", "+">>
    \o <<" ", "1", ";", " ", "i", "f", " ", "(", "t", " ", ">", " ">>
    \o <<"1", ")", " ", "{", " ", "w", " ", ":", "=", " ", "s", ";">>
    \o <<" ", "s", " ", ":", "=", " ", "w", " ", "+", " ", "t", " ">>
    \o <<"}", " ", "e", "l", "s", "e", " ", "{", " ", "s", " ", ":">>
    \o <<"=", " ", "t", " ", "}", ";", " ", "i", " ", ":", "=", " ">>
    \o <<"t", " ", "}", "\n", "s">>

\* a := <v>; f := function() a; a := <v + 1>; r := f()
Src_late(v) ==
    <<"a", " ", ":", "=", " ">> \o Numeral(v)
    \o <<";", " ", "f", " ", ":", "=", " ", "f", "u", "n", "c", "t">>
    \o <<"i", "o", "n", "(", ")", " ", "a", ";", " ", "a", " ", ":">>
    \o <<"=", " ">> \o Numeral(v + 1)
    \o <<";", " ", "r", " ", ":", "=", " ", "f", "(", ")">>

\* a := <v>; f := function(x) { a := x + 1; b := a; b }; r := f(a)
Src_bleed(v) ==
    <<"a", " ", ":", "=", " ">> \o Numeral(v)
    \o <<";", " ", "f", " ", ":", "=", " ", "f", "u", "n", "c", "t">>
    \o <<"i", "o", "n", "(", "x", ")", " ", "{", " ", "a", " ", ":">>
    \o <<"=", " ", "x", " ", "+", " ", "1", ";", " ", "b", " ", ":">>
    \o <<"=", " ", "a", ";", " ", "b", " ", "}", ";", " ", "r", " ">>
    \o <<":", "=", " ", "f", "(", "a", ")">>

\* a := <v>; K := class(x) { a := x + 1; b := a }; o := K(a)
Src_bleedc(v) ==
    <<"a", " ", ":", "=", " ">> \o Numeral(v)
    \o <<";", " ", "K", " ", ":", "=", " ", "c", "l", "a", "s", "s">>
    \o <<"(", "x", ")", " ", "{", " ", "a", " ", ":", "=", " ", "x">>
    \o <<" ", "+", " ", "1", ";", " ", "b", " ", ":", "=", " ", "a">>
    \o <<" ", "}", ";", " ", "o", " ", ":", "=", " ", "K", "(", "a">>
    \o <<")">>

\* f := function(x) { z := x; 2 // z }; r := f(<v>); f(0)
Src_raise(v) ==
    <<"f", " ", ":", "=", " ", "f", "u", "n", "c", "t", "i", "o">>
    \o <<"n", "(", "x", ")", " ", "{", " ", "z", " ", ":", "=", " ">>
    \o <<"x", ";", " ", "2", " ", "/", "/", " ", "z", " ", "}", ";">>
    \o <<" ", "r", " ", ":", "=", " ", "f", "(">> \o Numeral(v)
    \o <<")", ";", " ", "f", "(", "0", ")">>

\* fib := function(n) if (n == 0 or n == 1) n else fib(n - 2) + fib(n - 1)
\* r := fib(<k>)
Src_fib(k) ==
    <<"f", "i", "b", " ", ":", "=", " ", "f", "u", "n", "c", "t">>
    \o <<"i", "o", "n", "(", "n", ")", " ", "i", "f", " ", "(", "n">>
    \o <<" ", "=", "=", " ", "0", " ", "o", "r", " ", "n", " ", "=">>
    \o <<"=", " ", "1", ")", " ", "n", " ", "e", "l", "s", "e", " ">>
    \o <<"f", "i", "b", "(", "n", " ", "-", " ", "2", ")", " ", "+">>
    \o <<" ", "f", "i", "b", "(", "n", " ", "-", " ", "1", ")", "\n">>
    \o <<"r", " ", ":", "=", " ", "f", "i", "b", "(">> \o Numeral(k)
    \o <<")">>

\* f := function(x, y) { g := x }; f(<@ArgList(1, n)>)
Src_fcall(n) ==
    <<"f", " ", ":", "=", " ", "f", "u", "n", "c", "t", "i", "o">>
    \o <<"n", "(", "x", ",", " ", "y", ")", " ", "{", " ", "g", " ">>
    \o <<":", "=", " ", "x", " ", "}", ";", " ", "f", "(">> \o ArgList(1, n)
    \o <<")">>

\* K := class(x, y) { g := x }; K(<@ArgList(1, n)>)
Src_ccall(n) ==
    <<"K", " ", ":", "=", " ", "c", "l", "a", "s", "s", "(", "x">>
    \o <<",", " ", "y", ")", " ", "{", " ", "g", " ", ":", "=", " ">>
    \o <<"x", " ", "}", ";", " ", "K", "(">> \o ArgList(1, n) \o <<")">>

\* K := class(x, y) { g := x }; r := K(<@ArgList(1, n)>)
Src_cassign(n) ==
    <<"K", " ", ":", "=", " ", "c", "l", "a", "s", "s", "(", "x">>
    \o <<",", " ", "y", ")", " ", "{", " ", "g", " ", ":", "=", " ">>
    \o <<"x", " ", "}", ";", " ", "r", " ", ":", "=", " ", "K", "(">>
    \o ArgList(1, n) \o <<")">>

\* Person := class(name, age) { year_of_birth := 2024 - age }
\* change_name := function(this, new_name) this.name := new_name
\* p := Person("J", <v>)
\* q := Person("K", <v>)
\* change_name(p, "B")
\* r := [p.name, p.age, q.name]
Src_person(v) ==
    <<"P", "e", "r", "s", "o", "n", " ", ":", "=", " ", "c", "l">>
    \o <<"a", "s", "s", "(", "n", "a", "m", "e", ",", " ", "a", "g">>
    \o <<"e", ")", " ", "{", " ", "y", "e", "a", "r", "_", "o", "f">>
    \o <<"_", "b", "i", "r", "t", "h", " ", ":", "=", " ", "2", "0">>
    \o <<"2", "4", " ", "-", " ", "a", "g", "e", " ", "}", "\n", "c">>
    \o <<"h", "a", "n", "g", "e", "_", "n", "a", "m", "e", " ", ":">>
    \o <<"=", " ", "f", "u", "n", "c", "t", "i", "o", "n", "(", "t">>
    \o <<"h", "i", "s", ",", " ", "n", "e", "w", "_", "n", "a", "m">>
    \o <<"e", ")", " ", "t", "h", "i", "s", ".", "n", "a", "m", "e">>
    \o <<" ", ":", "=", " ", "n", "e", "w", "_", "n", "a", "m", "e">>
    \o <<"\n", "p", " ", ":", "=", " ", "P", "e", "r", "s", "o", "n">>
    \o <<"(", "\"", "J", "\"", ",", " ">> \o Numeral(v)
    \o <<")", "\n", "q", " ", ":", "=", " ", "P", "e", "r", "s", "o">>
    \o <<"n", "(", "\"", "K", "\"", ",", " ">> \o Numeral(v)
    \o <<")", "\n", "c", "h", "a", "n", "g", "e", "_", "n", "a", "m">>
    \o <<"e", "(", "p", ",", " ", "\"", "B", "\"", ")", "\n", "r", " ">>
    \o <<":", "=", " ", "[", "p", ".", "n", "a", "m", "e", ",", " ">>
    \o <<"p", ".", "a", "g", "e", ",", " ", "q", ".", "n", "a", "m">>
    \o <<"e", "]">>

\* base := <v>
\* K := class(x) { y := x + base; { t := y; y := t * 2 }; base := y }
\* o := K(<v + 1>)
Src_instance(v) ==
    <<"b", "a", "s", "e", " ", ":", "=", " ">> \o Numeral(v)
    \o <<"\n", "K", " ", ":", "=", " ", "c", "l", "a", "s", "s", "(">>
    \o <<"x", ")", " ", "{", " ", "y", " ", ":", "=", " ", "x", " ">>
    \o <<"+", " ", "b", "a", "s", "e", ";", " ", "{", " ", "t", " ">>
    \o <<":", "=", " ", "y", ";", " ", "y", " ", ":", "=", " ", "t">>
    \o <<" ", "*", " ", "2", " ", "}", ";", " ", "b", "a", "s", "e">>
    \o <<" ", ":", "=", " ", "y", " ", "}", "\n", "o", " ", ":", "=">>
    \o <<" ", "K", "(">> \o Numeral(v + 1) \o <<")">>

\* K := class(x) { y := x }
\* set := function(this, u) { this.y := u; this := 0 }
\* o := K(1); n := K(1)
\* set(o, <v + 1>)
\* r := [o.y, o.x, n.y]
Src_setfield(v) ==
    <<"K", " ", ":", "=", " ", "c", "l", "a", "s", "s", "(", "x">>
    \o <<")", " ", "{", " ", "y", " ", ":", "=", " ", "x", " ", "}">>
    \o <<"\n", "s", "e", "t", " ", ":", "=", " ", "f", "u", "n", "c">>
    \o <<"t", "i", "o", "n", "(", "t", "h", "i", "s", ",", " ", "u">>
    \o <<")", " ", "{", " ", "t", "h", "i", "s", ".", "y", " ", ":">>
    \o <<"=", " ", "u", ";", " ", "t", "h", "i", "s", " ", ":", "=">>
    \o <<" ", "0", " ", "}", "\n", "o", " ", ":", "=", " ", "K", "(">>
    \o <<"1", ")", ";", " ", "n", " ", ":", "=", " ", "K", "(", "1">>
    \o <<")", "\n", "s", "e", "t", "(", "o", ",", " ">> \o Numeral(v + 1)
    \o <<")", "\n", "r", " ", ":", "=", " ", "[", "o", ".", "y", ",">>
    \o <<" ", "o", ".", "x", ",", " ", "n", ".", "y", "]">>

\* c := <v>; <@ChainTargets(1, k)>(c := c + 1)
Src_chain(k, v) ==
    <<"c", " ", ":", "=", " ">> \o Numeral(v) \o <<";", " ">>
    \o ChainTargets(1, k)
    \o <<"(", "c", " ", ":", "=", " ", "c", " ", "+", " ", "1", ")">>

\* a := b := <v>
Src_pair(v) ==
    <<"a", " ", ":", "=", " ", "b", " ", ":", "=", " ">> \o Numeral(v)

\* x := <v>; y := (x =: <v + 1>)
Src_retold(v) ==
    <<"x", " ", ":", "=", " ">> \o Numeral(v)
    \o <<";", " ", "y", " ", ":", "=", " ", "(", "x", " ", "=", ":">>
    \o <<" ">> \o Numeral(v + 1) \o <<")">>

\* "tj, ..., tlen", the targets at the positions in splats written "...tj"
RECURSIVE Pattern(_, _, _)
Pattern(j, len, splats) ==
    IF j > len THEN <<>>
    ELSE (IF j \in splats THEN <<".", ".", ".">> ELSE <<>>)
         \o <<"t">> \o Numeral(j)
         \o (IF j < len THEN <<",", " ">> ELSE <<>>)
         \o Pattern(j + 1, len, splats)

\* [<pattern>] := [1, ..., n]
Src_unpack(len, splats, n) ==
    <<"[">> \o Pattern(1, len, splats) \o <<"]", " ", ":", "=", " ", "[">>
    \o ArgList(1, n) \o <<"]">>

\* [<pattern>] := <v>
Src_unpacknum(len, splats, v) ==
    <<"[">> \o Pattern(1, len, splats) \o <<"]", " ", ":", "=", " ">>
    \o Numeral(v)

\* aa := [1,1,2,3,4,5,2,3]; [a, ...[...b, c], d, e] := aa; b
Src_nested ==
    <<"a", "a", " ", ":", "=", " ", "[", "1", ",", "1", ",", "2">>
    \o <<",", "3", ",", "4", ",", "5", ",", "2", ",", "3", "]", ";">>
    \o <<" ", "[", "a", ",", " ", ".", ".", ".", "[", ".", ".", ".">>
    \o <<"b", ",", " ", "c", "]", ",", " ", "d", ",", " ", "e", "]">>
    \o <<" ", ":", "=", " ", "a", "a", ";", " ", "b">>

\* aa := [<@ArgList(1, n)>]; [a, ...[...b, c], d, e] := aa; b
Src_nestedn(n) ==
    <<"a", "a", " ", ":", "=", " ", "[">> \o ArgList(1, n)
    \o <<"]", ";", " ", "[", "a", ",", " ", ".", ".", ".", "[", ".">>
    \o <<".", ".", "b", ",", " ", "c", "]", ",", " ", "d", ",", " ">>
    \o <<"e", "]", " ", ":", "=", " ", "a", "a", ";", " ", "b">>

\* [t1, ...t2, t3] := "c<v>d"
Src_unpackstr(v) ==
    <<"[", "t", "1", ",", " ", ".", ".", ".", "t", "2", ",", " ">>
    \o <<"t", "3", "]", " ", ":", "=", " ", "\"", "c">> \o Numeral(v)
    \o <<"d", "\"">>

\* [t1, [t2, t3]] := [1, <v>]
Src_inner(v) ==
    <<"[", "t", "1", ",", " ", "[", "t", "2", ",", " ", "t", "3">>
    \o <<"]", "]", " ", ":", "=", " ", "[", "1", ",", " ">> \o Numeral(v)
    \o <<"]">>

\* c := 0; r := (<u> < (c := c + 1) < <v>)
Src_between(u, v) ==
    <<"c", " ", ":", "=", " ", "0", ";", " ", "r", " ", ":", "=">>
    \o <<" ", "(">> \o Numeral(u)
    \o <<" ", "<", " ", "(", "c", " ", ":", "=", " ", "c", " ", "+">>
    \o <<" ", "1", ")", " ", "<", " ">> \o Numeral(v) \o <<")">>

\* c := 0; r := (<v> < 1 < (c := 5))
Src_cut(v) ==
    <<"c", " ", ":", "=", " ", "0", ";", " ", "r", " ", ":", "=">>
    \o <<" ", "(">> \o Numeral(v)
    \o <<" ", "<", " ", "1", " ", "<", " ", "(", "c", " ", ":", "=">>
    \o <<" ", "5", ")", ")">>

\* r := <u> <= <v> < 2
Src_ordered(u, v) ==
    <<"r", " ", ":", "=", " ">> \o Numeral(u) \o <<" ", "<", "=", " ">>
    \o Numeral(v) \o <<" ", "<", " ", "2">>

\* a := <v>; f := function(x) x + a
Src_setup(v) ==
    <<"a", " ", ":", "=", " ">> \o Numeral(v)
    \o <<";", " ", "f", " ", ":", "=", " ", "f", "u", "n", "c", "t">>
    \o <<"i", "o", "n", "(", "x", ")", " ", "x", " ", "+", " ", "a">>

\* { b := a; a := b + 1 }
\* 
Src_step ==
    <<"{", " ", "b", " ", ":", "=", " ", "a", ";", " ", "a", " ">>
    \o <<":", "=", " ", "b", " ", "+", " ", "1", " ", "}", "\n">>

\* a := a // 0
\* 
Src_stepfail ==
    <<"a", " ", ":", "=", " ", "a", " ", "/", "/", " ", "0", "\n">>

\* a := a + 1
Src_stepopen ==
    <<"a", " ", ":", "=", " ", "a", " ", "+", " ", "1">>

\* c := a
\* 
Src_fresh ==
    <<"c", " ", ":", "=", " ", "a", "\n">>

\* -(a := f(a))
Src_then ==
    <<"-", "(", "a", " ", ":", "=", " ", "f", "(", "a", ")", ")">>

\* a := )
Src_thenbad ==
    <<"a", " ", ":", "=", " ", ")">>

\* k := <v>
\* double := function(x) x * k
\* quad := function(x) double(double(x))
Src_lib(v) ==
    <<"k", " ", ":", "=", " ">> \o Numeral(v)
    \o <<"\n", "d", "o", "u", "b", "l", "e", " ", ":", "=", " ", "f">>
    \o <<"u", "n", "c", "t", "i", "o", "n", "(", "x", ")", " ", "x">>
    \o <<" ", "*", " ", "k", "\n", "q", "u", "a", "d", " ", ":", "=">>
    \o <<" ", "f", "u", "n", "c", "t", "i", "o", "n", "(", "x", ")">>
    \o <<" ", "d", "o", "u", "b", "l", "e", "(", "d", "o", "u", "b">>
    \o <<"l", "e", "(", "x", ")", ")">>

\* r := quad(<v>); r + k
Src_use(v) ==
    <<"r", " ", ":", "=", " ", "q", "u", "a", "d", "(">> \o Numeral(v)
    \o <<")", ";", " ", "r", " ", "+", " ", "k">>

\* k := k + <v>; t := k
Src_rebind(v) ==
    <<"k", " ", ":", "=", " ", "k", " ", "+", " ">> \o Numeral(v)
    \o <<";", " ", "t", " ", ":", "=", " ", "k">>

\* oct := function(x) quad(x) * <v + 1>; oct(1)
Src_ext(v) ==
    <<"o", "c", "t", " ", ":", "=", " ", "f", "u", "n", "c", "t">>
    \o <<"i", "o", "n", "(", "x", ")", " ", "q", "u", "a", "d", "(">>
    \o <<"x", ")", " ", "*", " ">> \o Numeral(v + 1)
    \o <<";", " ", "o", "c", "t", "(", "1", ")">>

\* k
Src_readk ==
    <<"k">>

\* k := <v>; k + 1
Src_again(v) ==
    <<"k", " ", ":", "=", " ">> \o Numeral(v)
    \o <<";", " ", "k", " ", "+", " ", "1">>

\* a := <v> # c
Src_hash(v) ==
    <<"a", " ", ":", "=", " ">> \o Numeral(v) \o <<" ", "#", " ", "c">>

\* a := <v> #
Src_hashend(v) ==
    <<"a", " ", ":", "=", " ">> \o Numeral(v) \o <<" ", "#">>

\* a := <v> # c
\* 
Src_hashline(v) ==
    <<"a", " ", ":", "=", " ">> \o Numeral(v) \o <<" ", "#", " ", "c", "\n">>

\* # c
Src_onlyhash ==
    <<"#", " ", "c">>

\* \* c *\ a := <v>
Src_remark(v) ==
    <<"\\", "*", " ", "c", " ", "*", "\\", " ", "a", " ", ":", "=">>
    \o <<" ">> \o Numeral(v)

\* a := <v> \* c
Src_open(v) ==
    <<"a", " ", ":", "=", " ">> \o Numeral(v) \o <<" ", "\\", "*", " ", "c">>

\* a := <v> $
Src_dollar(v) ==
    <<"a", " ", ":", "=", " ">> \o Numeral(v) \o <<" ", "$">>

\* a := <v> # c
\* b := a
\* b
Src_hashmid(v) ==
    <<"a", " ", ":", "=", " ">> \o Numeral(v)
    \o <<" ", "#", " ", "c", "\n", "b", " ", ":", "=", " ", "a", "\n">>
    \o <<"b">>

\* <v> + [<v>]
Src_addlist(v) ==
    Numeral(v) \o <<" ", "+", " ", "[">> \o Numeral(v) \o <<"]">>

\* -"<v>"
Src_negstr(v) ==
    <<"-", "\"">> \o Numeral(v) \o <<"\"">>

\* <v> // (<v> - <v>)
Src_floordiv(v) ==
    Numeral(v) \o <<" ", "/", "/", " ", "(">> \o Numeral(v)
    \o <<" ", "-", " ">> \o Numeral(v) \o <<")">>

\* <v> // 0
Src_divend(v) ==
    Numeral(v) \o <<" ", "/", "/", " ", "0">>

\* x + <v>
Src_unbound(v) ==
    <<"x", " ", "+", " ">> \o Numeral(v)

\* [<v>][<v>]
Src_outofrange(v) ==
    <<"[">> \o Numeral(v) \o <<"]", "[">> \o Numeral(v) \o <<"]">>

\* <v>(<v>)
Src_notfunc(v) ==
    Numeral(v) \o <<"(">> \o Numeral(v) \o <<")">>

\* a := <v>; a.b
Src_attr(v) ==
    <<"a", " ", ":", "=", " ">> \o Numeral(v) \o <<";", " ", "a", ".", "b">>

\* true
Src_true ==
    <<"t", "r", "u", "e">>

\* false
Src_false ==
    <<"f", "a", "l", "s", "e">>

\* a := <v>; b := true
Src_bindbool(v) ==
    <<"a", " ", ":", "=", " ">> \o Numeral(v)
    \o <<";", " ", "b", " ", ":", "=", " ", "t", "r", "u", "e">>

\* [<v>, false]
Src_listbool(v) ==
    <<"[">> \o Numeral(v) \o <<",", " ", "f", "a", "l", "s", "e", "]">>

\* a := (true); <v>
Src_parenbool(v) ==
    <<"a", " ", ":", "=", " ", "(", "t", "r", "u", "e", ")", ";">> \o <<" ">>
    \o Numeral(v)

\* truex := <v>; truex
Src_word(v) ==
    <<"t", "r", "u", "e", "x", " ", ":", "=", " ">> \o Numeral(v)
    \o <<";", " ", "t", "r", "u", "e", "x">>

\* b := ["Alice", "Bob", "Eve"]; b[<v>]
Src_names(v) ==
    <<"b", " ", ":", "=", " ", "[", "\"", "A", "l", "i", "c", "e">>
    \o <<"\"", ",", " ", "\"", "B", "o", "b", "\"", ",", " ", "\"", "E">>
    \o <<"v", "e", "\"", "]", ";", " ", "b", "[">> \o Numeral(v) \o <<"]">>

\* [a, b, c, d] := "c<v>"; b
Src_quad(v) ==
    <<"[", "a", ",", " ", "b", ",", " ", "c", ",", " ", "d", "]">>
    \o <<" ", ":", "=", " ", "\"", "c">> \o Numeral(v)
    \o <<"\"", ";", " ", "b">>

\* "<v>"
Src_strlit(v) ==
    <<"\"">> \o Numeral(v) \o <<"\"">>

\* [a, b] := "c<v>"; a
Src_twochars(v) ==
    <<"[", "a", ",", " ", "b", "]", " ", ":", "=", " ", "\"", "c">>
    \o Numeral(v) \o <<"\"", ";", " ", "a">>

\* [a, b] := "cd"; a
Src_cd ==
    <<"[", "a", ",", " ", "b", "]", " ", ":", "=", " ", "\"", "c">>
    \o <<"d", "\"", ";", " ", "a">>

\* a := [<v>, <v>]; b := #a
\* b
Src_lenlist(v) ==
    <<"a", " ", ":", "=", " ", "[">> \o Numeral(v) \o <<",", " ">>
    \o Numeral(v)
    \o <<"]", ";", " ", "b", " ", ":", "=", " ", "#", "a", "\n", "b">>

\* a := [<v>]; b := #a + <v>
\* b
Src_lenmid(v) ==
    <<"a", " ", ":", "=", " ", "[">> \o Numeral(v)
    \o <<"]", ";", " ", "b", " ", ":", "=", " ", "#", "a", " ", "+">>
    \o <<" ">> \o Numeral(v) \o <<"\n", "b">>

\* i := 0; a := [<v>, <v>]; while ((i := i + 1) < #a) i
\* i
Src_lenwhile(v) ==
    <<"i", " ", ":", "=", " ", "0", ";", " ", "a", " ", ":", "=">>
    \o <<" ", "[">> \o Numeral(v) \o <<",", " ">> \o Numeral(v)
    \o <<"]", ";", " ", "w", "h", "i", "l", "e", " ", "(", "(", "i">>
    \o <<" ", ":", "=", " ", "i", " ", "+", " ", "1", ")", " ", "<">>
    \o <<" ", "#", "a", ")", " ", "i", "\n", "i">>

\* #[<v>, <v>, <v>]
\* 
Src_lenlit(v) ==
    <<"#", "[">> \o Numeral(v) \o <<",", " ">> \o Numeral(v) \o <<",", " ">>
    \o Numeral(v) \o <<"]", "\n">>

\* b := <v>; a := [b]
\* #a
\* 
Src_lenafter(v) ==
    <<"b", " ", ":", "=", " ">> \o Numeral(v)
    \o <<";", " ", "a", " ", ":", "=", " ", "[", "b", "]", "\n", "#">>
    \o <<"a", "\n">>

\* a := [0, 0]; a[0] := <v>; a[0]
Src_setitem(v) ==
    <<"a", " ", ":", "=", " ", "[", "0", ",", " ", "0", "]", ";">>
    \o <<" ", "a", "[", "0", "]", " ", ":", "=", " ">> \o Numeral(v)
    \o <<";", " ", "a", "[", "0", "]">>

\* a := [0]; a[0] := <v>
Src_setvalue(v) ==
    <<"a", " ", ":", "=", " ", "[", "0", "]", ";", " ", "a", "[">>
    \o <<"0", "]", " ", ":", "=", " ">> \o Numeral(v)

\* a := [0, 0]; b := a; a[1] := <v>; b[1]
Src_setalias(v) ==
    <<"a", " ", ":", "=", " ", "[", "0", ",", " ", "0", "]", ";">>
    \o <<" ", "b", " ", ":", "=", " ", "a", ";", " ", "a", "[", "1">>
    \o <<"]", " ", ":", "=", " ">> \o Numeral(v)
    \o <<";", " ", "b", "[", "1", "]">>

\* a := [[0, 0], [0]]; b := a[0]; a[0][1] := <v>; b[1]
Src_setnested(v) ==
    <<"a", " ", ":", "=", " ", "[", "[", "0", ",", " ", "0", "]">>
    \o <<",", " ", "[", "0", "]", "]", ";", " ", "b", " ", ":", "=">>
    \o <<" ", "a", "[", "0", "]", ";", " ", "a", "[", "0", "]", "[">>
    \o <<"1", "]", " ", ":", "=", " ">> \o Numeral(v)
    \o <<";", " ", "b", "[", "1", "]">>

\* a := [0, <v>]; a[0] := 1; a[1]
Src_setother(v) ==
    <<"a", " ", ":", "=", " ", "[", "0", ",", " ">> \o Numeral(v)
    \o <<"]", ";", " ", "a", "[", "0", "]", " ", ":", "=", " ", "1">>
    \o <<";", " ", "a", "[", "1", "]">>

\* "i", or "-k" for the negative i = -k
Signed(i) == IF i < 0 THEN <<"-">> \o Numeral(-i) ELSE Numeral(i)

\* "12...k"
RECURSIVE DigitRun(_, _)
DigitRun(j, k) == IF j > k THEN <<>> ELSE Numeral(j) \o DigitRun(j + 1, k)

\* a := [1, ..., n]; a[<i>]
Src_at(n, i) ==
    <<"a", " ", ":", "=", " ", "[">> \o ArgList(1, n)
    \o <<"]", ";", " ", "a", "[">> \o Signed(i) \o <<"]">>

\* "12...k"[<i>]
Src_strat(k, i) ==
    <<"\"">> \o DigitRun(1, k) \o <<"\"", "[">> \o Signed(i) \o <<"]">>

\* [...t1, t2, t3] := ""; t1[<i>]
Src_emptyat(i) ==
    <<"[", ".", ".", ".", "t", "1", ",", " ", "t", "2", ",", " ", "t", "3">>
    \o <<"]", " ", ":", "=", " ", "\"", "\"", ";", " ", "t", "1", "[">>
    \o Signed(i) \o <<"]">>

\* K := class(x) { y := x }; o := K(<v>); o.z
Src_missing(v) ==
    <<"K", " ", ":", "=", " ", "c", "l", "a", "s", "s", "(", "x">>
    \o <<")", " ", "{", " ", "y", " ", ":", "=", " ", "x", " ", "}">>
    \o <<";", " ", "o", " ", ":", "=", " ", "K", "(">> \o Numeral(v)
    \o <<")", ";", " ", "o", ".", "z">>

\* K := class(x) { y := x }; o := K(<v>); o.y
Src_present(v) ==
    <<"K", " ", ":", "=", " ", "c", "l", "a", "s", "s", "(", "x">>
    \o <<")", " ", "{", " ", "y", " ", ":", "=", " ", "x", " ", "}">>
    \o <<";", " ", "o", " ", ":", "=", " ", "K", "(">> \o Numeral(v)
    \o <<")", ";", " ", "o", ".", "y">>

\* K := class(x) { y := x }; o := K(<v>); o["z"]
Src_missingkey(v) ==
    <<"K", " ", ":", "=", " ", "c", "l", "a", "s", "s", "(", "x">>
    \o <<")", " ", "{", " ", "y", " ", ":", "=", " ", "x", " ", "}">>
    \o <<";", " ", "o", " ", ":", "=", " ", "K", "(">> \o Numeral(v)
    \o <<")", ";", " ", "o", "[", "\"", "z", "\"", "]">>

\* a := [<v>]; a.y
Src_listmember(v) ==
    <<"a", " ", ":", "=", " ", "[">> \o Numeral(v)
    \o <<"]", ";", " ", "a", ".", "y">>

\* K := class(x) { y := x }; o := K(<v>); o.y.z
Src_deep(v) ==
    <<"K", " ", ":", "=", " ", "c", "l", "a", "s", "s", "(", "x">>
    \o <<")", " ", "{", " ", "y", " ", ":", "=", " ", "x", " ", "}">>
    \o <<";", " ", "o", " ", ":", "=", " ", "K", "(">> \o Numeral(v)
    \o <<")", ";", " ", "o", ".", "y", ".", "z">>

\* [<v>, 1] * <v>
Src_scale(v) ==
    <<"[">> \o Numeral(v) \o <<",", " ", "1", "]", " ", "*", " ">>
    \o Numeral(v)

\* [2, <v>] * [<v>, 3]
Src_times(v) ==
    <<"[", "2", ",", " ">> \o Numeral(v) \o <<"]", " ", "*", " ", "[">>
    \o Numeral(v) \o <<",", " ", "3", "]">>

\* [<v>, 5] - [1, <v>]
Src_minus(v) ==
    <<"[">> \o Numeral(v)
    \o <<",", " ", "5", "]", " ", "-", " ", "[", "1", ",", " ">>
    \o Numeral(v) \o <<"]">>

\* [<v>, 1] + [<v>]
Src_differ(v) ==
    <<"[">> \o Numeral(v) \o <<",", " ", "1", "]", " ", "+", " ", "[">>
    \o Numeral(v) \o <<"]">>

\* [<v>] * [<v>, 1]
Src_differtimes(v) ==
    <<"[">> \o Numeral(v) \o <<"]", " ", "*", " ", "[">> \o Numeral(v)
    \o <<",", " ", "1", "]">>

\* [1, <v>] + [<v>, 2]
Src_plus(v) ==
    <<"[", "1", ",", " ">> \o Numeral(v) \o <<"]", " ", "+", " ", "[">>
    \o Numeral(v) \o <<",", " ", "2", "]">>

\* a := []; i := 0
\* while (i < <n>) { a := [...a, i]; i := i + 1 }
\* a
Src_accum(n) ==
    <<"a", " ", ":", "=", " ", "[", "]", ";", " ", "i", " ", ":">>
    \o <<"=", " ", "0", "\n", "w", "h", "i", "l", "e", " ", "(", "i">>
    \o <<" ", "<", " ">> \o Numeral(n)
    \o <<")", " ", "{", " ", "a", " ", ":", "=", " ", "[", ".", ".">>
    \o <<".", "a", ",", " ", "i", "]", ";", " ", "i", " ", ":", "=">>
    \o <<" ", "i", " ", "+", " ", "1", " ", "}", "\n", "a">>

\* c := 0; i := 0
\* while ((c := c + 1) <= <n>) { t := i; i := t + 1 }
\* [c, i]
Src_count(n) ==
    <<"c", " ", ":", "=", " ", "0", ";", " ", "i", " ", ":", "=">>
    \o <<" ", "0", "\n", "w", "h", "i", "l", "e", " ", "(", "(", "c">>
    \o <<" ", ":", "=", " ", "c", " ", "+", " ", "1", ")", " ", "<">>
    \o <<"=", " ">> \o Numeral(n)
    \o <<")", " ", "{", " ", "t", " ", ":", "=", " ", "i", ";", " ">>
    \o <<"i", " ", ":", "=", " ", "t", " ", "+", " ", "1", " ", "}">>
    \o <<"\n", "[", "c", ",", " ", "i", "]">>

\* i := 0
\* while (i < <n>) { t := i; i := t + 1; i * 2 }
Src_lastbody(n) ==
    <<"i", " ", ":", "=", " ", "0", "\n", "w", "h", "i", "l", "e">>
    \o <<" ", "(", "i", " ", "<", " ">> \o Numeral(n)
    \o <<")", " ", "{", " ", "t", " ", ":", "=", " ", "i", ";", " ">>
    \o <<"i", " ", ":", "=", " ", "t", " ", "+", " ", "1", ";", " ">>
    \o <<"i", " ", "*", " ", "2", " ", "}">>

\* i := 0
\* while (i < <n>) i := i + 1
Src_bare(n) ==
    <<"i", " ", ":", "=", " ", "0", "\n", "w", "h", "i", "l", "e">>
    \o <<" ", "(", "i", " ", "<", " ">> \o Numeral(n)
    \o <<")", " ", "i", " ", ":", "=", " ", "i", " ", "+", " ", "1">>

\* i := <n>; s := 0
\* while (i) { s := s + i; i := i - 1 }
\* s
Src_down(n) ==
    <<"i", " ", ":", "=", " ">> \o Numeral(n)
    \o <<";", " ", "s", " ", ":", "=", " ", "0", "\n", "w", "h", "i">>
    \o <<"l", "e", " ", "(", "i", ")", " ", "{", " ", "s", " ", ":">>
    \o <<"=", " ", "s", " ", "+", " ", "i", ";", " ", "i", " ", ":">>
    \o <<"=", " ", "i", " ", "-", " ", "1", " ", "}", "\n", "s">>

\* i := 0
\* while (i < <n>) { i := i + 1 }
\* while (i < <n>) { i := i + 1 }
Src_second(n) ==
    <<"i", " ", ":", "=", " ", "0", "\n", "w", "h", "i", "l", "e">>
    \o <<" ", "(", "i", " ", "<", " ">> \o Numeral(n)
    \o <<")", " ", "{", " ", "i", " ", ":", "=", " ", "i", " ", "+">>
    \o <<" ", "1", " ", "}", "\n", "w", "h", "i", "l", "e", " ", "(">>
    \o <<"i", " ", "<", " ">> \o Numeral(n)
    \o <<")", " ", "{", " ", "i", " ", ":", "=", " ", "i", " ", "+">>
    \o <<" ", "1", " ", "}">>

\* c := 0; r := (<v> and (c := c + 1)); [c, r]
Src_andonce(v) ==
    <<"c", " ", ":", "=", " ", "0", ";", " ", "r", " ", ":", "=">>
    \o <<" ", "(">> \o Numeral(v)
    \o <<" ", "a", "n", "d", " ", "(", "c", " ", ":", "=", " ", "c">>
    \o <<" ", "+", " ", "1", ")", ")", ";", " ", "[", "c", ",", " ">>
    \o <<"r", "]">>

\* c := 0; r := (<v> or (c := 5)); [c, r]
Src_orfirst(v) ==
    <<"c", " ", ":", "=", " ", "0", ";", " ", "r", " ", ":", "=">>
    \o <<" ", "(">> \o Numeral(v)
    \o <<" ", "o", "r", " ", "(", "c", " ", ":", "=", " ", "5", ")">>
    \o <<")", ";", " ", "[", "c", ",", " ", "r", "]">>

\* c := 0; r := (0 or (c := <v>)); [c, r]
Src_orlast(v) ==
    <<"c", " ", ":", "=", " ", "0", ";", " ", "r", " ", ":", "=">>
    \o <<" ", "(", "0", " ", "o", "r", " ", "(", "c", " ", ":", "=">>
    \o <<" ">> \o Numeral(v)
    \o <<")", ")", ";", " ", "[", "c", ",", " ", "r", "]">>

\* c := 0; r := (0 and (c := <v>)); [c, r]
Src_andshort(v) ==
    <<"c", " ", ":", "=", " ", "0", ";", " ", "r", " ", ":", "=">>
    \o <<" ", "(", "0", " ", "a", "n", "d", " ", "(", "c", " ", ":">>
    \o <<"=", " ">> \o Numeral(v)
    \o <<")", ")", ";", " ", "[", "c", ",", " ", "r", "]">>

\* c := 0; r := (1 and <v> and (c := c + <v>)); [c, r]
Src_andlast(v) ==
    <<"c", " ", ":", "=", " ", "0", ";", " ", "r", " ", ":", "=">>
    \o <<" ", "(", "1", " ", "a", "n", "d", " ">> \o Numeral(v)
    \o <<" ", "a", "n", "d", " ", "(", "c", " ", ":", "=", " ", "c">>
    \o <<" ", "+", " ">> \o Numeral(v)
    \o <<")", ")", ";", " ", "[", "c", ",", " ", "r", "]">>

\* c := 0; r := (0 or (c := c + <v>) or (c := 5)); [c, r]
Src_ormid(v) ==
    <<"c", " ", ":", "=", " ", "0", ";", " ", "r", " ", ":", "=">>
    \o <<" ", "(", "0", " ", "o", "r", " ", "(", "c", " ", ":", "=">>
    \o <<" ", "c", " ", "+", " ">> \o Numeral(v)
    \o <<")", " ", "o", "r", " ", "(", "c", " ", ":", "=", " ", "5">>
    \o <<")", ")", ";", " ", "[", "c", ",", " ", "r", "]">>

\* p := <v>; q := p // 0
\* p
Src_failtop(v) ==
    <<"p", " ", ":", "=", " ">> \o Numeral(v)
    \o <<";", " ", "q", " ", ":", "=", " ", "p", " ", "/", "/", " ">>
    \o <<"0", "\n", "p">>

\* p := <v>; { u := p; { w := u + 1; w // 0 } }
Src_failnested(v) ==
    <<"p", " ", ":", "=", " ">> \o Numeral(v)
    \o <<";", " ", "{", " ", "u", " ", ":", "=", " ", "p", ";", " ">>
    \o <<"{", " ", "w", " ", ":", "=", " ", "u", " ", "+", " ", "1">>
    \o <<";", " ", "w", " ", "/", "/", " ", "0", " ", "}", " ", "}">>

\* p := <v>; { u := p }; z := p // 0
\* z
Src_failafter(v) ==
    <<"p", " ", ":", "=", " ">> \o Numeral(v)
    \o <<";", " ", "{", " ", "u", " ", ":", "=", " ", "p", " ", "}">>
    \o <<";", " ", "z", " ", ":", "=", " ", "p", " ", "/", "/", " ">>
    \o <<"0", "\n", "z">>

\* g := function(x) { y := x; y // 0 }; p := <v>; g(p)
Src_failcall(v) ==
    <<"g", " ", ":", "=", " ", "f", "u", "n", "c", "t", "i", "o">>
    \o <<"n", "(", "x", ")", " ", "{", " ", "y", " ", ":", "=", " ">>
    \o <<"x", ";", " ", "y", " ", "/", "/", " ", "0", " ", "}", ";">>
    \o <<" ", "p", " ", ":", "=", " ">> \o Numeral(v)
    \o <<";", " ", "g", "(", "p", ")">>

\* p
Src_readp ==
    <<"p">>

\* w + u + p
Src_readw ==
    <<"w", " ", "+", " ", "u", " ", "+", " ", "p">>

\* mk := function(p) { loc := p + 1; h := function(q) q + p; h }; k := mk(<v>); k(1)
Src_readparam(v) ==
    <<"m", "k", " ", ":", "=", " ", "f", "u", "n", "c", "t", "i">>
    \o <<"o", "n", "(", "p", ")", " ", "{", " ", "l", "o", "c", " ">>
    \o <<":", "=", " ", "p", " ", "+", " ", "1", ";", " ", "h", " ">>
    \o <<":", "=", " ", "f", "u", "n", "c", "t", "i", "o", "n", "(">>
    \o <<"q", ")", " ", "q", " ", "+", " ", "p", ";", " ", "h", " ">>
    \o <<"}", ";", " ", "k", " ", ":", "=", " ", "m", "k", "(">>
    \o Numeral(v) \o <<")", ";", " ", "k", "(", "1", ")">>

\* mk := function(p) { loc := p + 1; h := function(q) q + loc; h }; k := mk(<v>); k(1)
Src_readlocal(v) ==
    <<"m", "k", " ", ":", "=", " ", "f", "u", "n", "c", "t", "i">>
    \o <<"o", "n", "(", "p", ")", " ", "{", " ", "l", "o", "c", " ">>
    \o <<":", "=", " ", "p", " ", "+", " ", "1", ";", " ", "h", " ">>
    \o <<":", "=", " ", "f", "u", "n", "c", "t", "i", "o", "n", "(">>
    \o <<"q", ")", " ", "q", " ", "+", " ", "l", "o", "c", ";", " ">>
    \o <<"h", " ", "}", ";", " ", "k", " ", ":", "=", " ", "m", "k">>
    \o <<"(">> \o Numeral(v) \o <<")", ";", " ", "k", "(", "1", ")">>

\* mk := function(p) { h := function(q) h; h }; k := mk(<v>); k(1)
Src_readself(v) ==
    <<"m", "k", " ", ":", "=", " ", "f", "u", "n", "c", "t", "i">>
    \o <<"o", "n", "(", "p", ")", " ", "{", " ", "h", " ", ":", "=">>
    \o <<" ", "f", "u", "n", "c", "t", "i", "o", "n", "(", "q", ")">>
    \o <<" ", "h", ";", " ", "h", " ", "}", ";", " ", "k", " ", ":">>
    \o <<"=", " ", "m", "k", "(">> \o Numeral(v)
    \o <<")", ";", " ", "k", "(", "1", ")">>

\* mk := function(p) { loc := p + 1; h := function(q) q + loc; h(1) }; mk(<v>)
Src_readinside(v) ==
    <<"m", "k", " ", ":", "=", " ", "f", "u", "n", "c", "t", "i">>
    \o <<"o", "n", "(", "p", ")", " ", "{", " ", "l", "o", "c", " ">>
    \o <<":", "=", " ", "p", " ", "+", " ", "1", ";", " ", "h", " ">>
    \o <<":", "=", " ", "f", "u", "n", "c", "t", "i", "o", "n", "(">>
    \o <<"q", ")", " ", "q", " ", "+", " ", "l", "o", "c", ";", " ">>
    \o <<"h", "(", "1", ")", " ", "}", ";", " ", "m", "k", "(">>
    \o Numeral(v) \o <<")">>

\* g := function(x) { [x, 1] + [x] }; g(<v>)
Src_bodymismatch(v) ==
    <<"g", " ", ":", "=", " ", "f", "u", "n", "c", "t", "i", "o">>
    \o <<"n", "(", "x", ")", " ", "{", " ", "[", "x", ",", " ", "1">>
    \o <<"]", " ", "+", " ", "[", "x", "]", " ", "}", ";", " ", "g">>
    \o <<"(">> \o Numeral(v) \o <<")">>

\* g := function(x) { r := [x, 1] + [x]; r }; g(<v>)
Src_bodyassign(v) ==
    <<"g", " ", ":", "=", " ", "f", "u", "n", "c", "t", "i", "o">>
    \o <<"n", "(", "x", ")", " ", "{", " ", "r", " ", ":", "=", " ">>
    \o <<"[", "x", ",", " ", "1", "]", " ", "+", " ", "[", "x", "]">>
    \o <<";", " ", "r", " ", "}", ";", " ", "g", "(">> \o Numeral(v)
    \o <<")">>

\* g := function(x) { x // 0 }; g(<v>)
Src_bodyzero(v) ==
    <<"g", " ", ":", "=", " ", "f", "u", "n", "c", "t", "i", "o">>
    \o <<"n", "(", "x", ")", " ", "{", " ", "x", " ", "/", "/", " ">>
    \o <<"0", " ", "}", ";", " ", "g", "(">> \o Numeral(v) \o <<")">>

\* g := function(x) x; g(<v>, <v>)
Src_toomany(v) ==
    <<"g", " ", ":", "=", " ", "f", "u", "n", "c", "t", "i", "o">>
    \o <<"n", "(", "x", ")", " ", "x", ";", " ", "g", "(">> \o Numeral(v)
    \o <<",", " ">> \o Numeral(v) \o <<")">>

\* g := function(x) { y + x }; g(<v>)
Src_bodyname(v) ==
    <<"g", " ", ":", "=", " ", "f", "u", "n", "c", "t", "i", "o">>
    \o <<"n", "(", "x", ")", " ", "{", " ", "y", " ", "+", " ", "x">>
    \o <<" ", "}", ";", " ", "g", "(">> \o Numeral(v) \o <<")">>

\* K := class(x, y) { z := x }; g := function(x) { K(x) }; g(<v>)
Src_bodyclass(v) ==
    <<"K", " ", ":", "=", " ", "c", "l", "a", "s", "s", "(", "x">>
    \o <<",", " ", "y", ")", " ", "{", " ", "z", " ", ":", "=", " ">>
    \o <<"x", " ", "}", ";", " ", "g", " ", ":", "=", " ", "f", "u">>
    \o <<"n", "c", "t", "i", "o", "n", "(", "x", ")", " ", "{", " ">>
    \o <<"K", "(", "x", ")", " ", "}", ";", " ", "g", "(">> \o Numeral(v)
    \o <<")">>

Vals == 1..MaxVal

\* The lengths n in lo..hi, each with the indices -(n+1)..n, of which the
\* first and the last are out of range; a string literal of k characters
\* keeps its two quotation marks.
Indexed(lo, hi) == UNION {{<<n, i>> : i \in -(n + 1)..n} : n \in lo..hi}
StrIndexed(lo, hi) == UNION {{<<k, i>> : i \in -(k + 3)..(k + 2)} : k \in lo..hi}

\* The numbers of iterations of the loops.
Iterations == 0..(2 * MaxLen)

\* The sources that apply an operator to operands of incompatible types.
Incompatible ==
    {Src_addlist(v) : v \in Vals} \cup {Src_negstr(v) : v \in Vals}
    \cup {Src_attr(v) : v \in Vals}

\* The sources run one after the other, or as one text: a first part and a
\* second; the empty text is a second part.
Firsts == {Src_step, Src_stepfail, Src_stepopen, Src_fresh}
Seconds == {Src_then, Src_thenbad, <<>>}

Suites == {"scope", "closure", "fib", "arity", "class", "assign", "unpack",
           "compare", "concat", "module", "clear", "lexer", "errors",
           "literal", "string", "length", "setitem", "subscript",
           "member", "listop", "while", "logic", "failed", "escape",
           "bodyerr"}

\* The patterns tried, <<len, splats>>: those with at most one splat, and
\* those whose first and last targets are both splats.
Patterns ==
    UNION {{<<len, S>> : S \in {{}} \cup {{p} : p \in 1..len}} : len \in 1..MaxPattern}
DoubleSplats == {<<len, {1, len}>> : len \in 2..MaxPattern}

Sources(s) ==
    CASE s = "scope" ->
           {Src_scope(v) : v \in Vals} \cup {Src_block(v) : v \in Vals}
           \cup {Src_branch(v) : v \in Vals} \cup {Src_loop(v) : v \in Vals}
      [] s = "closure" ->
           {Src_late(v) : v \in Vals} \cup {Src_bleed(v) : v \in Vals}
           \cup {Src_bleedc(v) : v \in Vals} \cup {Src_raise(v) : v \in Vals}
      [] s = "fib" -> {Src_fib(k) : k \in 0..MaxFib}
      [] s = "arity" ->
           {Src_fcall(n) : n \in 0..MaxArgs} \cup {Src_ccall(n) : n \in 0..MaxArgs}
           \cup {Src_cassign(n) : n \in 0..MaxArgs}
      [] s = "class" ->
           {Src_person(v) : v \in Vals} \cup {Src_instance(v) : v \in Vals}
           \cup {Src_setfield(v) : v \in Vals}
      [] s = "assign" ->
           {Src_chain(k, v) : k \in 1..MaxChain, v \in Vals}
           \cup {Src_pair(v) : v \in Vals} \cup {Src_retold(v) : v \in Vals}
      [] s = "unpack" ->
           {Src_unpack(pt[1], pt[2], n) : pt \in Patterns, n \in 0..MaxLen}
           \cup {Src_unpacknum(pt[1], pt[2], 1) : pt \in Patterns}
           \cup {Src_unpack(pt[1], pt[2], n) : pt \in DoubleSplats, n \in {0, MaxLen}}
           \cup {Src_nestedn(n) : n \in 3..MaxLen} \cup {Src_nested}
           \cup {Src_unpackstr(v) : v \in Vals} \cup {Src_inner(v) : v \in Vals}
      [] s = "compare" ->
           {Src_between(u, v) : u \in 0..MaxVal, v \in Vals}
           \cup {Src_cut(v) : v \in Vals}
           \cup {Src_ordered(u, v) : u \in 0..MaxVal, v \in Vals}
      [] s = "concat" ->
           {Src_setup(v) : v \in Vals} \cup {s1 \o s2 : s1 \in Firsts \cup {<<>>}, s2 \in Seconds}
      [] s = "module" ->
           {Src_lib(v) : v \in Vals} \cup {Src_use(v) : v \in Vals}
           \cup {Src_rebind(v) : v \in Vals} \cup {Src_ext(v) : v \in Vals}
      [] s = "clear" ->
           {Src_lib(MaxVal), Src_use(MaxVal), Src_again(MaxVal), Src_readk}
      [] s = "lexer" ->
           {Src_hash(v) : v \in Vals} \cup {Src_hashend(v) : v \in Vals}
           \cup {Src_hashline(v) : v \in Vals} \cup {Src_remark(v) : v \in Vals}
           \cup {Src_open(v) : v \in Vals} \cup {Src_dollar(v) : v \in Vals}
           \cup {Src_hashmid(v) : v \in Vals} \cup {Src_onlyhash, <<>>}
      [] s = "errors" ->
           Incompatible
           \cup {Src_floordiv(v) : v \in Vals} \cup {Src_divend(v) : v \in Vals}
           \cup {Src_unbound(v) : v \in Vals} \cup {Src_outofrange(v) : v \in Vals}
           \cup {Src_notfunc(v) : v \in Vals}
      [] s = "literal" ->
           {Src_true, Src_false} \cup {Src_bindbool(v) : v \in Vals}
           \cup {Src_listbool(v) : v \in Vals} \cup {Src_parenbool(v) : v \in Vals}
           \cup {Src_word(v) : v \in Vals} \cup {Src_again(v) : v \in Vals}
      [] s = "string" ->
           {Src_names(v) : v \in 0..MaxVal} \cup {Src_cd}
           \cup {Src_twochars(v) : v \in Vals} \cup {Src_quad(v) : v \in Vals}
           \cup {Src_strlit(v) : v \in Vals}
      [] s = "length" ->
           {Src_lenlist(v) : v \in Vals} \cup {Src_lenmid(v) : v \in Vals}
           \cup {Src_lenwhile(v) : v \in Vals} \cup {Src_lenlit(v) : v \in Vals}
           \cup {Src_lenafter(v) : v \in Vals}
      [] s = "setitem" ->
           {Src_setitem(v) : v \in Vals} \cup {Src_setvalue(v) : v \in Vals}
           \cup {Src_setalias(v) : v \in Vals} \cup {Src_setnested(v) : v \in Vals}
           \cup {Src_setother(v) : v \in Vals}
      [] s = "subscript" ->
           {Src_at(n, i) : <<n, i>> \in Indexed(0, MaxLen)}
           \cup {Src_strat(k, i) : <<k, i>> \in StrIndexed(1, MaxVal)}
           \cup {Src_emptyat(i) : i \in -1..0}
      [] s = "member" ->
           {Src_missing(v) : v \in Vals} \cup {Src_present(v) : v \in Vals}
           \cup {Src_missingkey(v) : v \in Vals} \cup {Src_listmember(v) : v \in Vals}
           \cup {Src_deep(v) : v \in Vals} \cup {Src_attr(v) : v \in Vals}
      [] s = "listop" ->
           {Src_scale(v) : v \in Vals} \cup {Src_plus(v) : v \in Vals}
           \cup {Src_times(v) : v \in Vals} \cup {Src_minus(v) : v \in Vals}
           \cup {Src_differ(v) : v \in Vals} \cup {Src_differtimes(v) : v \in Vals}
      [] s = "while" ->
           {Src_accum(n) : n \in Iterations} \cup {Src_count(n) : n \in Iterations}
           \cup {Src_lastbody(n) : n \in Iterations} \cup {Src_bare(n) : n \in Iterations}
           \cup {Src_down(n) : n \in Iterations} \cup {Src_second(n) : n \in Iterations}
      [] s = "logic" ->
           {Src_andonce(v) : v \in Vals} \cup {Src_orfirst(v) : v \in Vals}
           \cup {Src_orlast(v) : v \in Vals} \cup {Src_andshort(v) : v \in Vals}
           \cup {Src_andlast(v) : v \in Vals} \cup {Src_ormid(v) : v \in Vals}
      [] s = "failed" ->
           {Src_failtop(v) : v \in Vals} \cup {Src_failnested(v) : v \in Vals}
           \cup {Src_failafter(v) : v \in Vals} \cup {Src_failcall(v) : v \in Vals}
           \cup {Src_readp, Src_readw}
      [] s = "escape" ->
           {Src_readparam(v) : v \in Vals} \cup {Src_readlocal(v) : v \in Vals}
           \cup {Src_readself(v) : v \in Vals} \cup {Src_readinside(v) : v \in Vals}
      [] s = "bodyerr" ->
           {Src_bodymismatch(v) : v \in Vals} \cup {Src_bodyassign(v) : v \in Vals}
           \cup {Src_bodyzero(v) : v \in Vals} \cup {Src_toomany(v) : v \in Vals}
           \cup {Src_bodyname(v) : v \in Vals} \cup {Src_bodyclass(v) : v \in Vals}
-----------------------------------------------------------------------------
(* The interpreter facade (src/src/interpreter.py).  MiniInterpreter and   *)
(* Interpreter hold the same state, one environment dict; the model gives  *)
(* one object the operations of both.                                       *)

Root == 1

\* Parser(Lexer(src)).parse_program(): the tree n, or the exception err.
Parse(src) ==
    LET lexed == Lexer_tokens(src)
        p == Parser_turns(lexed.toks,
                          [i |-> 0, k |-> <<>>, mode |-> "call", rule |-> "program",
                           n |-> NoNode, err |-> "", done |-> FALSE],
                          MaxTurns)
    IN IF lexed.err # "" THEN [n |-> NoNode, err |-> lexed.err]
       ELSE IF ~p.done THEN [n |-> NoNode, err |-> "Unmodelled"]
       ELSE [n |-> p.n, err |-> p.err]

\* Parser(Lexer(src)).parse_program() followed by tree.evaluate(environment,
\* flush_variables), on the heap h: the outcome [st, v].
Run(src, flush_variables, h) ==
    LET tree == Parse(src)
        st == [heap |-> h, log |-> <<>>, err |-> ""]
        e == Evaluator_turns(
                 [heap |-> h, log |-> <<>>, err |-> "", k |-> <<>>, mode |-> "eval",
                  node |-> tree.n, env |-> Root, flush |-> flush_variables,
                  v |-> Null, lhs |-> NoNode, rhs |-> NoNode,
                  return_old |-> FALSE, done |-> FALSE],
                 MaxTurns)
    IN IF tree.err # "" THEN Raise(st, tree.err)
       ELSE IF ~e.done THEN Raise(st, "Unmodelled")
       ELSE [st |-> [heap |-> e.heap, log |-> e.log, err |-> e.err],
             v |-> IF e.err = "" THEN e.v ELSE Null]

\* The suites whose claims are about one run of one source from the empty
\* environment, and the number of operations a behaviour performs.
Single == {"unpack", "subscript", "while"}
Budget ==
    IF suite \in Single THEN MaxRuns ELSE IF suite = "clear" THEN MaxCalls ELSE MaxOps

Init ==
    /\ heap = <<DictObj(EmptyDict)>>
    /\ value = Null
    /\ error = ""
    /\ log = <<>>
    /\ last = [op |-> "init", src |-> <<>>, evaluated |-> FALSE]
    /\ ops = 0
    /\ suite \in Suites

\* Interpreter.execute / MiniInterpreter.execute: the value evaluate returned
\* has no unwrap(), so a run that evaluates to the end raises AttributeError.
Execute(src) ==
    /\ ops < Budget
    /\ \E r \in {Run(src, TRUE, heap)} :
          /\ r.st.err # "Hang"
          /\ heap' = r.st.heap
          /\ log' = r.st.log
          /\ value' = r.v
          /\ error' = IF Failed(r) THEN r.st.err ELSE "AttributeError"
          /\ last' = [op |-> "execute", src |-> src, evaluated |-> ~Failed(r)]
    /\ ops' = ops + 1
    /\ UNCHANGED suite

\* An import that flushes as execute does.
ImportModule_flush(src) ==
    /\ ops < Budget
    /\ \E r \in {Run(src, TRUE, heap)} :
          /\ r.st.err # "Hang"
          /\ heap' = r.st.heap
          /\ log' = r.st.log
          /\ value' = r.v
          /\ error' = r.st.err
          /\ last' = [op |-> "import_module", src |-> src, evaluated |-> ~Failed(r)]
    /\ ops' = ops + 1
    /\ UNCHANGED suite

\* MiniInterpreter.import_module
ImportModule(src) ==
    /\ ops < Budget
    /\ \E r \in {Run(src, FALSE, heap)} :
          /\ r.st.err # "Hang"
          /\ heap' = r.st.heap
          /\ log' = r.st.log
          /\ value' = r.v
          /\ error' = r.st.err
          /\ last' = [op |-> "import_module", src |-> src, evaluated |-> ~Failed(r)]
    /\ ops' = ops + 1
    /\ UNCHANGED suite

\* A clear that leaves the environment as it is.
Clear_keep ==
    /\ ops < Budget
    /\ heap' = heap
    /\ value' = Null
    /\ error' = ""
    /\ log' = <<>>
    /\ last' = [op |-> "clear", src |-> <<>>, evaluated |-> FALSE]
    /\ ops' = ops + 1
    /\ UNCHANGED suite

\* Interpreter.clear
Clear ==
    /\ ops < Budget
    /\ heap' = [heap EXCEPT ![Root].d = EmptyDict]
    /\ value' = Null
    /\ error' = ""
    /\ log' = <<>>
    /\ last' = [op |-> "clear", src |-> <<>>, evaluated |-> FALSE]
    /\ ops' = ops + 1
    /\ UNCHANGED suite

Next ==
    \/ \E src \in Sources(suite) : Execute(src)
    \/ \E src \in Sources(suite) : ImportModule(src)
    \/ Clear

Spec == Init /\ [][Next]_vars

\* The runs of one family of source texts.
InitScope == Init /\ suite = "scope"
SpecScope == InitScope /\ [][Next]_vars
InitClosure == Init /\ suite = "closure"
SpecClosure == InitClosure /\ [][Next]_vars
InitFib == Init /\ suite = "fib"
SpecFib == InitFib /\ [][Next]_vars
InitArity == Init /\ suite = "arity"
SpecArity == InitArity /\ [][Next]_vars
InitClass == Init /\ suite = "class"
SpecClass == InitClass /\ [][Next]_vars
InitAssign == Init /\ suite = "assign"
SpecAssign == InitAssign /\ [][Next]_vars
InitUnpack == Init /\ suite = "unpack"
SpecUnpack == InitUnpack /\ [][Next]_vars
InitCompare == Init /\ suite = "compare"
SpecCompare == InitCompare /\ [][Next]_vars
InitConcat == Init /\ suite = "concat"
SpecConcat == InitConcat /\ [][Next]_vars
InitModule == Init /\ suite = "module"
SpecModule == InitModule /\ [][Next]_vars
InitClear == Init /\ suite = "clear"
SpecClear == InitClear /\ [][Next]_vars
InitLexer == Init /\ suite = "lexer"
SpecLexer == InitLexer /\ [][Next]_vars
InitErrors == Init /\ suite = "errors"
SpecErrors == InitErrors /\ [][Next]_vars
InitLiteral == Init /\ suite = "literal"
SpecLiteral == InitLiteral /\ [][Next]_vars
InitString == Init /\ suite = "string"
SpecString == InitString /\ [][Next]_vars
InitLength == Init /\ suite = "length"
SpecLength == InitLength /\ [][Next]_vars
InitSetItem == Init /\ suite = "setitem"
SpecSetItem == InitSetItem /\ [][Next]_vars
InitSubscript == Init /\ suite = "subscript"
SpecSubscript == InitSubscript /\ [][Next]_vars
InitMember == Init /\ suite = "member"
SpecMember == InitMember /\ [][Next]_vars
InitListOp == Init /\ suite = "listop"
SpecListOp == InitListOp /\ [][Next]_vars
InitWhile == Init /\ suite = "while"
SpecWhile == InitWhile /\ [][Next]_vars
InitLogic == Init /\ suite = "logic"
SpecLogic == InitLogic /\ [][Next]_vars
InitFailed == Init /\ suite = "failed"
SpecFailed == InitFailed /\ [][Next]_vars
InitEscape == Init /\ suite = "escape"
SpecEscape == InitEscape /\ [][Next]_vars
InitBodyErr == Init /\ suite = "bodyerr"
SpecBodyErr == InitBodyErr /\ [][Next]_vars

\* The root environment.
Env == heap[Root].d

NoUnmodelled == error # "Unmodelled"

-----------------------------------------------------------------------------
(* Reading the log of the last run.                                        *)

Events(kind) == {i \in DOMAIN log : log[i].ev = kind}
Calls == Events("call")
Returns == Events("return")
CallOf(i) == log[log[i].call]

Max(S) == CHOOSE x \in S : \A y \in S : y <= x

\* The assignments to the name n of the dict env logged from lo to hi.
Assignments(env, n, lo, hi) ==
    {j \in lo..hi : log[j].ev = "assign" /\ log[j].env = env /\ log[j].name = n}

\* The value the last of them stored, or otherwise.
LastAssigned(env, n, lo, hi, otherwise) ==
    IF Assignments(env, n, lo, hi) = {} THEN otherwise
    ELSE log[Max(Assignments(env, n, lo, hi))].v

\* The body of the call logged at i was entered: its scope is the next event.
Entered(i) ==
    /\ i + 1 \in DOMAIN log
    /\ log[i + 1].ev = "enter"
    /\ log[i + 1].env = log[i].callee

ParamNames(c) == {c.params[j].name : j \in 1..Len(c.params)}

\* d with the parameters of the call c bound to its arguments.
Bound(d, c) ==
    [n \in DOMAIN d \cup ParamNames(c) |->
        IF n \in ParamNames(c)
        THEN c.args[Max({j \in 1..Len(c.params) : c.params[j].name = n})]
        ELSE d[n]]

\* The names the call that returned at i assigned in its own environment.
Written(i) ==
    {log[j].name : j \in {j \in log[i].call..i :
                             log[j].ev = "assign" /\ log[j].env = log[i].callee}}

\* The same, outside every scope nested in the body: the scopes of the
\* callee's environment that were entered after the body was.
WrittenAtTopLevel(i) ==
    {log[j].name : j \in {j \in log[i].call..i :
        /\ log[j].ev = "assign" /\ log[j].env = log[i].callee
        /\ ~\E k \in j..i : /\ log[k].ev = "scope" /\ log[k].env = log[i].callee
                            /\ log[k].start > log[i].call + 1
                            /\ log[k].start <= j}}

RECURSIVE Fib(_)
Fib(n) == IF n <= 1 THEN n ELSE Fib(n - 2) + Fib(n - 1)

-----------------------------------------------------------------------------
(* Scopes.                                                                  *)

\* C1: a scope that flushes and ends without an error leaves its environment
\* with exactly the keys it had on entry; each of them holds the value last
\* assigned to it while the scope ran, or its value on entry if none was.
C1_ScopeFlush ==
    \A i \in Events("scope") : log[i].flush =>
        /\ DOMAIN log[i].after = DOMAIN log[i].before
        /\ \A n \in DOMAIN log[i].before :
              log[i].after[n] =
                  LastAssigned(log[i].env, n, log[i].start, i, log[i].before[n])

\* A nested scope that bound a new name and rebound an old one has ended.
C1_Witness ==
    \E i \in Events("scope") :
        /\ log[i].flush
        /\ DOMAIN log[i].atexit # DOMAIN log[i].before
        /\ \E n \in DOMAIN log[i].before : log[i].after[n] # log[i].before[n]
        /\ \E j \in Events("scope") :
              j > i /\ log[j].env = log[i].env /\ log[j].start < log[i].start

-----------------------------------------------------------------------------
(* Functions.                                                               *)

\* C2, as the specification words it: the body of a function is entered with
\* the environment as it was when the declaration was evaluated, plus the
\* parameters.
C2_SnapshotAtDeclaration ==
    \A i \in Calls : (~log[i].cls /\ Entered(i)) =>
        log[i + 1].d = Bound(log[i].snap, log[i])

\* C2, amended: the body of a function is entered with a copy of the
\* declaring environment as it is when the call is made, plus the
\* parameters, so a name bound or rebound there after the declaration and
\* before the call is seen by the body.
C2_CopyAtCall ==
    \A i \in Calls : (~log[i].cls /\ Entered(i)) =>
        /\ log[i + 1].d = Bound(log[i].closure, log[i])
        /\ log[i].callee # log[i].caller

\* A function was called after a name of its declaring environment was
\* rebound, and its body saw the new value.
C2_Witness ==
    \E i \in Calls :
        /\ ~log[i].cls /\ Entered(i)
        /\ \E n \in (DOMAIN log[i].snap \cap DOMAIN log[i].closure) \ ParamNames(log[i]) :
              /\ log[i].snap[n] # log[i].closure[n]
              /\ log[i + 1].d[n] = log[i].closure[n]

\* C3: the recursive Fibonacci function, bound to its name after its
\* declaration was evaluated, finds itself under that name in every call;
\* fib(k) evaluates to the k-th Fibonacci number, every call returns the
\* Fibonacci number of its argument, and the caller's environment is after
\* the call what it was before it.
C3_Recursion ==
    /\ \A k \in 0..MaxFib :
          last.src = Src_fib(k) => last.evaluated /\ value = VInt(Fib(k))
    /\ \A i \in Calls :
          /\ "fib" \in DOMAIN log[i].closure
          /\ log[i].closure["fib"] = VFunc(log[i].f)
          /\ "fib" \in DOMAIN log[i].snap => log[i].snap["fib"] # VFunc(log[i].f)
    /\ \A i \in Returns :
          /\ log[i].err = ""
          /\ log[i].v = VInt(Fib(CallOf(i).args[1].i))
          /\ log[i].callerAfter = CallOf(i).callerBefore

\* fib(7) was evaluated to 13, through calls made from inside the body.
C3_Witness ==
    /\ last.src = Src_fib(7)
    /\ value = VInt(13)
    /\ \E i \in Returns :
          /\ log[i].caller # Root
          /\ "n" \in DOMAIN log[i].callerAfter
          /\ log[i].callerAfter["n"] # CallOf(i).args[1]

\* C4, as the specification words it: after a call returns, a name of the
\* caller's environment that the call assigned holds, in the caller's
\* environment, the value the call wrote last.
C4_BleedsBack ==
    \A i \in Returns : log[i].err = "" =>
        \A n \in Written(i) \cap DOMAIN CallOf(i).callerBefore :
            log[i].callerAfter[n] =
                LastAssigned(log[i].callee, n, log[i].call, i, Null)

\* C4, amended: after a call returns, a name of the caller's environment
\* that the call assigned holds, in the caller's environment, the value it
\* held when the call was made.
C4_NoBleed ==
    \A i \in Returns : log[i].err = "" =>
        \A n \in Written(i) \cap DOMAIN CallOf(i).callerBefore :
            log[i].callerAfter[n] = CallOf(i).callerBefore[n]

\* A call has returned that assigned another value to a name of its caller.
C4_Witness ==
    \E i \in Returns :
        /\ log[i].err = ""
        /\ \E n \in Written(i) \cap DOMAIN CallOf(i).callerBefore :
              LastAssigned(log[i].callee, n, log[i].call, i, Null)
                  # CallOf(i).callerBefore[n]

\* C5: a function call runs in a dict of its own; when it has returned or
\* raised, no parameter and no name the body assigned is bound in the
\* caller's environment unless it was bound there when the call was made.
C5_FreshEnvironment ==
    \A i \in Returns : ~CallOf(i).cls =>
        /\ log[i].callee # log[i].caller
        /\ \A j \in Calls : j < log[i].call => log[j].callee # log[i].callee
        /\ \A n \in ParamNames(CallOf(i)) \cup Written(i) :
              n \in DOMAIN log[i].callerAfter => n \in DOMAIN CallOf(i).callerBefore

\* One call of a function has returned and a later one has raised; both
\* bound a parameter, and assigned a name, that the caller does not have.
C5_Witness ==
    \E i, j \in Returns :
        /\ i < j /\ ~CallOf(i).cls /\ ~CallOf(j).cls
        /\ log[i].err = "" /\ log[j].err # ""
        /\ \A r \in {i, j} :
              /\ ParamNames(CallOf(r)) \ DOMAIN log[r].callerAfter # {}
              /\ Written(r) \ DOMAIN log[r].callerAfter # {}
        /\ Written(j) \subseteq DOMAIN log[j].calleeAfter

\* C6, as the specification words it: a call with a number of arguments
\* other than the number of parameters, of a function or of a class, fails
\* with DIFunctionArgsCountError and does not enter the body.
C6_ArityError ==
    \A i \in Calls : Len(log[i].args) # Len(log[i].params) =>
        /\ ~Entered(i)
        /\ error = "DIFunctionArgsCountError"

-----------------------------------------------------------------------------
(* Classes.                                                                 *)

\* C7: a class call returns, as a dict, the environment its body ran in,
\* with nothing flushed: it has every key of the environment it was copied
\* from, every parameter and every name the body assigned at its top level,
\* each with the value the body assigned last or else the argument or the
\* copied value; the caller's environment is what it was before the call.
C7_ClassCall ==
    \A i \in Returns : (CallOf(i).cls /\ log[i].err = "") =>
        LET c == CallOf(i)
            o == log[i].calleeAfter
        IN /\ log[i].v = VDict(log[i].callee)
           /\ DOMAIN o = DOMAIN c.closure \cup ParamNames(c) \cup WrittenAtTopLevel(i)
           /\ \A n \in DOMAIN c.closure \cup ParamNames(c) :
                 o[n] = LastAssigned(log[i].callee, n, log[i].call, i, Bound(c.closure, c)[n])
           /\ \A n \in WrittenAtTopLevel(i) :
                 o[n] = LastAssigned(log[i].callee, n, log[i].call, i, Null)
           /\ log[i].callerAfter = c.callerBefore

\* Person(name, age) has returned a dict with year_of_birth = 2024 - age, a
\* name neither the copied environment nor the caller has.
C7_Witness ==
    \E i \in Returns :
        /\ CallOf(i).cls /\ log[i].err = ""
        /\ "year_of_birth" \in DOMAIN log[i].calleeAfter
        /\ "year_of_birth" \notin DOMAIN CallOf(i).closure \cup DOMAIN log[i].callerAfter
        /\ "age" \in ParamNames(CallOf(i))
        /\ log[i].calleeAfter["year_of_birth"]
               = VInt(2024 - log[i].calleeAfter["age"].i)

\* The instances the run created: the dicts its class calls returned.
Instances == {i \in Returns : CallOf(i).cls /\ log[i].err = ""}

\* The member stores of the run into the dict at address a.
Stores(a) == {j \in Events("setattr") : log[j].obj = a}

\* C8: a member store through a parameter writes the dict the caller's
\* name refers to.  At the end of the run the field holds the value stored
\* last, the other fields of the dict hold what they held before the store,
\* and an instance that no store addressed holds what its class call left.
C8_ReferenceSemantics ==
    /\ \A j \in Events("setattr") :
          LET a == log[j].obj
          IN Max(Stores(a)) = j =>
                /\ heap[a].d[log[j].name] = log[j].v
                /\ \A m \in DOMAIN log[j].before \ {log[j].name} :
                      heap[a].d[m] = log[j].before[m]
                /\ DOMAIN heap[a].d = DOMAIN log[j].before \cup {log[j].name}
    /\ \A i \in Instances :
          Stores(log[i].callee) = {} => heap[log[i].callee].d = log[i].calleeAfter
    /\ \A v \in Vals :
          (last.src = Src_setfield(v) /\ last.evaluated) =>
              heap[value.a].c = <<VInt(v + 1), VInt(1), VInt(1)>>

\* A call stored a new value into a field of an instance that a name of the
\* caller refers to, while another instance of the class exists; the caller
\* then read the new value through its name.
C8_Witness ==
    \E j \in Events("setattr") : \E i \in Returns : \E v \in Vals :
        /\ log[i].call < j /\ j < i
        /\ \E p \in DOMAIN log[i].callerAfter :
              log[i].callerAfter[p] = VDict(log[j].obj)
        /\ log[j].name \in DOMAIN log[j].before
        /\ log[j].before[log[j].name] # log[j].v
        /\ \E q \in Instances : log[q].callee # log[j].obj
        /\ last.src = Src_setfield(v) /\ last.evaluated
        /\ heap[value.a].c[1] = log[j].v

-----------------------------------------------------------------------------
(* Assignment.                                                              *)

\* The names the run assigned in the root environment, in order, and the
\* values.
RootAssignments == {i \in Events("assign") : log[i].env = Root}
RootAssigns ==
    [j \in 1..Cardinality(RootAssignments) |->
        log[CHOOSE i \in RootAssignments :
                Cardinality({h \in RootAssignments : h <= i}) = j]]

\* "t" followed by the numeral of j
Target(j) == Join(<<"t">> \o Numeral(j))

\* C9: the chain t1 := ... := tk := (c := c + 1) evaluates its last operand
\* once, so c is assigned twice in the run; it then assigns tk, ..., t1 in
\* this order, each with the value of the last operand, which is also the
\* value of the chain.  a := b := v assigns b, then a, both with v.
C9_Chain ==
    /\ \A k \in 1..MaxChain : \A v \in Vals :
          last.src = Src_chain(k, v) =>
              /\ last.evaluated
              /\ value = VInt(v + 1)
              /\ Len(RootAssigns) = k + 2
              /\ RootAssigns[1].name = "c" /\ RootAssigns[1].v = VInt(v)
              /\ RootAssigns[2].name = "c" /\ RootAssigns[2].v = VInt(v + 1)
              /\ \A j \in 1..k :
                    /\ RootAssigns[2 + j].name = Target(k + 1 - j)
                    /\ RootAssigns[2 + j].v = VInt(v + 1)
    /\ \A v \in Vals :
          last.src = Src_pair(v) =>
              /\ last.evaluated
              /\ value = VInt(v)
              /\ Len(RootAssigns) = 2
              /\ RootAssigns[1].name = "b" /\ RootAssigns[1].v = VInt(v)
              /\ RootAssigns[2].name = "a" /\ RootAssigns[2].v = VInt(v)

\* A chain of three targets has run and left them bound.
C9_Witness ==
    \E v \in Vals :
        /\ last.src = Src_chain(3, v)
        /\ last.op = "import_module"
        /\ {"t1", "t2", "t3", "c"} \subseteq DOMAIN Env
        /\ \A n \in {"t1", "t2", "t3", "c"} : Env[n] = VInt(v + 1)

\* C10, as the specification words it: x := v; y := (x =: u) runs, and
\* leaves x = u and y = v.
C10_ReturnOld ==
    \A v \in Vals :
        (last.src = Src_retold(v) /\ last.op = "import_module") =>
            /\ error = ""
            /\ "x" \in DOMAIN Env /\ Env["x"] = VInt(v + 1)
            /\ "y" \in DOMAIN Env /\ Env["y"] = VInt(v)

-----------------------------------------------------------------------------
(* List patterns.                                                           *)

\* The root assignments of the run to the name n.
AssignedTo(n) == {i \in RootAssignments : log[i].name = n}

\* The run assigned each of the targets t1..tlen once and nothing else; with
\* items the elements of the right-hand side rhs and p1 the position of the
\* splat among the targets, counted from 1: the targets before it got the
\* items at their own positions, the targets after it the last items, and
\* the splat target the slice between them.
Unpacked(len, p1, rhs, items) ==
    LET n == Len(items)
        rest == SubSeq(items, p1, n - (len - p1))
    IN /\ Cardinality(RootAssignments) = len
       /\ \A j \in 1..len :
             /\ Cardinality(AssignedTo(Target(j))) = 1
             /\ LET v == log[CHOOSE i \in AssignedTo(Target(j)) : TRUE].v
                IN CASE j < p1 -> v = items[j]
                     [] j > p1 -> v = items[n - (len - j)]
                     [] OTHER ->
                          IF rhs.t = "str" THEN v = VStr(SubSeq(rhs.s, p1, n - (len - p1)))
                          ELSE v.t = "list" /\ heap[v.a].c = rest

\* The value x is the value v, or an element of the list v.
Holds(v, x) ==
    \/ v = x
    \/ v.t = "list" /\ \E k \in DOMAIN heap[v.a].c : heap[v.a].c[k] = x

\* C11: a pattern of m + 1 targets with one splat at index p, assigned a list
\* or string of n >= m elements, gives the targets before p the elements
\* rhs[0..p), the targets after p the last m - p elements and the splat
\* target the slice rhs[p .. n - (m - p)); every element of the list 1..n
\* goes to exactly one target; the value of the assignment is the right-hand
\* side; a pattern nested under the splat is unpacked by the same rule, so
\* [a, ...[...b, c], d, e] := [1,1,2,3,4,5,2,3] leaves b = [1,2,3,4].
C11_Unpack ==
    /\ \A pt \in Patterns : \A n \in 0..MaxLen :
          (last.src = Src_unpack(pt[1], pt[2], n) /\ pt[2] # {} /\ n >= pt[1] - 1) =>
              /\ last.evaluated
              /\ value.t = "list"
              /\ heap[value.a].c = [i \in 1..n |-> VInt(i)]
              /\ Unpacked(pt[1], CHOOSE p \in pt[2] : TRUE, value, heap[value.a].c)
              /\ \A i \in 1..n :
                    Cardinality({j \in RootAssignments : Holds(log[j].v, VInt(i))}) = 1
    /\ \A v \in Vals :
          last.src = Src_unpackstr(v) =>
              /\ last.evaluated
              /\ value.t = "str"
              /\ Unpacked(3, 2, value, Iterate(value, heap))
    /\ \A n \in 4..MaxLen :
          last.src = Src_nestedn(n) =>
              /\ last.evaluated
              /\ value.t = "list"
              /\ heap[value.a].c = [i \in 1..(n - 4) |-> VInt(i + 1)]
              /\ value = LastAssigned(Root, "b", 1, Len(log), Null)
              /\ LastAssigned(Root, "a", 1, Len(log), Null) = VInt(1)
              /\ LastAssigned(Root, "c", 1, Len(log), Null) = VInt(n - 2)
              /\ LastAssigned(Root, "d", 1, Len(log), Null) = VInt(n - 1)
              /\ LastAssigned(Root, "e", 1, Len(log), Null) = VInt(n)
    /\ last.src = Src_nested =>
          /\ last.evaluated
          /\ value.t = "list"
          /\ heap[value.a].c = <<VInt(1), VInt(2), VInt(3), VInt(4)>>
          /\ value = LastAssigned(Root, "b", 1, Len(log), Null)

\* A splat in the middle of three targets took the two middle elements of four
\* and left the targets bound.
C11_Witness ==
    /\ last.src = Src_unpack(3, {2}, 4)
    /\ last.op = "import_module"
    /\ error = ""
    /\ {"t1", "t2", "t3"} \subseteq DOMAIN Env
    /\ Env["t1"] = VInt(1) /\ Env["t3"] = VInt(4)
    /\ Env["t2"].t = "list" /\ heap[Env["t2"].a].c = <<VInt(2), VInt(3)>>

\* The run failed with DIRuntimeSyntaxError.
Rejected == ~last.evaluated /\ error = "DIRuntimeSyntaxError"

\* C12: a list pattern is rejected with DIRuntimeSyntaxError when the
\* right-hand side is a number, when the pattern has no splat and its length
\* is not the length of the right-hand side, when it has one splat and the
\* right-hand side has fewer than len - 1 elements, and when it has two
\* splats; if the pattern is the outermost one, the run has assigned nothing.
C12_Rejected ==
    /\ \A pt \in Patterns :
          last.src = Src_unpacknum(pt[1], pt[2], 1) =>
              Rejected /\ RootAssignments = {}
    /\ \A pt \in Patterns \cup DoubleSplats : \A n \in 0..MaxLen :
          (/\ last.src = Src_unpack(pt[1], pt[2], n)
           /\ \/ pt[2] = {} /\ pt[1] # n
              \/ Cardinality(pt[2]) = 1 /\ n < pt[1] - 1
              \/ Cardinality(pt[2]) > 1) =>
              Rejected /\ RootAssignments = {}
    /\ \A v \in Vals : last.src = Src_inner(v) => Rejected
    /\ last.src = Src_nestedn(3) => Rejected

\* A pattern of two targets was refused a list of three elements, and a
\* pattern with two splats a list of MaxLen elements.
C12_Witness ==
    /\ Rejected
    /\ RootAssignments = {}
    /\ DOMAIN Env = {}
    /\ last.src \in {Src_unpack(2, {}, 3), Src_unpack(3, {1, 3}, MaxLen)}

-----------------------------------------------------------------------------
(* Comparison chains.                                                       *)

\* C13, as the specification words it: u < (c := c + 1) < v evaluates its
\* middle operand once, so c, set to 0 before, is assigned once more and
\* holds 1, and the chain is true exactly when u < 1 and 1 < v; v < 1 < (c := 5)
\* with v >= 1 stops at the first pair and never assigns 5; u <= v < 2 is true
\* exactly when both pairs hold.
C13_ChainOnce ==
    /\ \A u \in 0..MaxVal : \A v \in Vals :
          last.src = Src_ordered(u, v) =>
              last.evaluated /\ value = VBool(u <= v /\ v < 2)
    /\ \A u \in 0..MaxVal : \A v \in Vals :
          last.src = Src_between(u, v) =>
              /\ last.evaluated
              /\ Cardinality(AssignedTo("c")) = 2
              /\ LastAssigned(Root, "c", 1, Len(log), Null) = VInt(1)
              /\ value = VBool(u < 1 /\ 1 < v)
    /\ \A v \in Vals :
          last.src = Src_cut(v) =>
              /\ last.evaluated
              /\ Cardinality(AssignedTo("c")) = 1
              /\ value = VBool(FALSE)

-----------------------------------------------------------------------------
(* The facade.                                                              *)

\* What execute(src) on the heap h leaves: the heap, the value evaluated and
\* the error execute ends with.
Executed(src, h) ==
    LET r == Run(src, TRUE, h)
    IN [heap |-> r.st.heap, value |-> r.v, log |-> r.st.log,
        error |-> IF Failed(r) THEN r.st.err ELSE "AttributeError",
        evaluated |-> ~Failed(r)]

\* The names the run x, started on the heap h, bound at its top level and had
\* not found bound: those its last scope, the program, holds on exit, or those
\* a run that failed left behind.
NewNames(x, h) ==
    IF x.evaluated
    THEN LET top == x.log[Max({i \in DOMAIN x.log : x.log[i].ev = "scope"})]
         IN DOMAIN top.atexit \ DOMAIN top.before
    ELSE DOMAIN x.heap[Root].d \ DOMAIN h[Root].d

\* The step is execute(src).
ExecuteStep(src) ==
    /\ ops' = ops + 1
    /\ last'.op = "execute"
    /\ last'.src = src

\* execute(s1) and then execute(s2) from this state end as the step did.
SameAsTwo(s1, s2) ==
    LET one == Executed(s1, heap)
        two == Executed(s2, one.heap)
    IN (NewNames(one, heap) = {} /\ NewNames(two, one.heap) = {}) =>
           /\ value' = two.value
           /\ error' = two.error
           /\ heap' = two.heap

Program == log[Len(log)]

\* The environment after an import holds every name the program held on
\* exit, with its value; after an execute it holds the names it held before,
\* and none of those the program bound first.
C15_Bound ==
    /\ (last.op = "import_module" /\ last.evaluated) =>
          /\ Env = Program.atexit
          /\ \A n \in DOMAIN Env :
                Env[n] = LastAssigned(Root, n, 1, Len(log), Program.before[n])
    /\ (last.op = "execute" /\ last.evaluated) =>
          /\ DOMAIN Env = DOMAIN Program.before
          /\ \A n \in DOMAIN Program.atexit \ DOMAIN Program.before :
                n \notin DOMAIN Env
    /\ \A v \in Vals :
          (last.src = Src_lib(v) /\ last.op = "import_module") =>
              /\ last.evaluated
              /\ {"k", "double", "quad"} \subseteq DOMAIN Env
              /\ Env["k"] = VInt(v)
    /\ \A v \in Vals :
          (last.src = Src_lib(v) /\ last.op = "execute") =>
              /\ last.evaluated
              /\ DOMAIN Program.atexit = DOMAIN Program.before \cup {"k", "double", "quad"}

\* execute of r := quad(v); r + k, where quad, double and k are bound as an
\* import of the library bound them, calls quad, which calls double twice;
\* where they are not bound it fails with DINameError.
C15_Visible ==
    \A v \in Vals :
        ExecuteStep(Src_use(v)) =>
            IF {"k", "double", "quad"} \subseteq DOMAIN heap[Root].d
            THEN /\ last'.evaluated
                 /\ LET k == heap[Root].d["k"].i IN value' = VInt(v * k * k + k)
                 /\ DOMAIN heap'[Root].d = DOMAIN heap[Root].d
            ELSE error' = "DINameError"

\* A declaration that calls the imported quad is evaluated, by import or by
\* execute, and called: quad and double are visible in the call.
C15_Extended ==
    \A v \in Vals :
        (/\ ops' = ops + 1
         /\ last'.src = Src_ext(v)
         /\ {"k", "double", "quad"} \subseteq DOMAIN heap[Root].d) =>
            /\ last'.evaluated
            /\ LET k == heap[Root].d["k"].i IN value' = VInt(k * k * (v + 1))
            /\ "oct" \in DOMAIN heap'[Root].d <=>
                   (last'.op = "import_module" \/ "oct" \in DOMAIN heap[Root].d)

\* C15: the names a source binds at its top level stay bound after import
\* has evaluated it, and every later execute sees them: imported functions
\* are called and call each other; the names a source first binds at its top
\* level are not bound once execute has evaluated it to its end.
C15_ImportPersists == [][C15_Bound' /\ C15_Visible /\ C15_Extended]_vars

\* An execute has called the imported quad, which called the imported double,
\* and its own name r is gone.
C15_Witness ==
    /\ last.op = "execute"
    /\ \E v \in Vals : last.src = Src_use(v)
    /\ last.evaluated
    /\ DOMAIN Env = {"k", "double", "quad"}
    /\ "r" \in DOMAIN Program.atexit

\* C16: after clear the environment is empty, whatever was imported and
\* executed before; the source executed next fails with DINameError where it
\* reads k, quad or double, which the library had bound, and reads k where it
\* has assigned k again.
C16_Clear ==
    [][/\ last'.op = "clear" => DOMAIN heap'[Root].d = {}
       /\ last.op = "clear" =>
             /\ ExecuteStep(Src_readk) => error' = "DINameError"
             /\ ExecuteStep(Src_use(MaxVal)) =>
                   /\ error' = "DINameError"
                   /\ ~last'.evaluated
             /\ ExecuteStep(Src_again(MaxVal)) =>
                   /\ last'.evaluated
                   /\ value' = VInt(MaxVal + 1)]_vars

\* The environment has been cleared after two operations that left functions
\* on the heap.
C16_Witness ==
    /\ last.op = "clear"
    /\ ops = 3
    /\ DOMAIN Env = {}
    /\ \E a \in DOMAIN heap : heap[a].k = "func"

-----------------------------------------------------------------------------
(* The lexer.                                                               *)

\* The tokens of a scan that ended without an error end with the one
\* END_OF_FILE token.
EndsWithEof(toks) ==
    /\ toks # <<>>
    /\ toks[Len(toks)].lex = "END_OF_FILE"
    /\ Cardinality({i \in DOMAIN toks : toks[i].lex = "END_OF_FILE"}) = 1

\* C17, as the specification words it: the scan of every source ends, and
\* unless it ends with DIStaticSyntaxError it has produced tokens of which
\* the last, and only the last, is END_OF_FILE.
C17_LexerTotal ==
    /\ last.op \in {"execute", "import_module"} =>
           LET scan == Lexer_tokens(last.src)
           IN scan.err # "DIStaticSyntaxError" =>
                  scan.err = "" /\ EndsWithEof(scan.toks)
    /\ \A src \in Sources(suite) : Lexer_tokens(src).err # "Hang"

\* The error kinds of src/src/exceptions.py and the one the evaluator names
\* for a call with the wrong number of arguments.
DIErrors ==
    {"DIStaticSyntaxError", "DIRuntimeSyntaxError", "DINameError", "DITypeError",
     "DIValueError", "DIZeroDivisionError", "DIIndexError",
     "DIFunctionArgsCountError"}

\* C18, as the specification words it: a run that fails in lexing, parsing
\* or evaluating fails with one of the DI error kinds, and a run that applies
\* an operator to operands of incompatible types fails with DITypeError.
C18_OnlyDIErrors ==
    last.op \in {"execute", "import_module"} =>
        /\ ~last.evaluated => error \in DIErrors
        /\ last.src \in Incompatible => error = "DITypeError"

\* C19, as the specification words it: the words true and false are
\* literals, evaluating to the Bool values true and false, alone and inside
\* a list, a parenthesis or the right-hand side of an assignment.
C19_BooleanLiterals ==
    last.op \in {"execute", "import_module"} =>
        /\ last.src = Src_true => last.evaluated /\ value = VBool(TRUE)
        /\ last.src = Src_false => last.evaluated /\ value = VBool(FALSE)
        /\ last.src \in {Src_bindbool(v) : v \in Vals}
                          \cup {Src_listbool(v) : v \in Vals}
                          \cup {Src_parenbool(v) : v \in Vals} => last.evaluated

\* C20, as the specification words it: a string literal evaluates to the
\* characters between its quotation marks.  The second of the three names
\* is the 3-character string Bob, and "cd" unpacks into two names, a bound
\* to "c" and b to "d".
C20_StringLiteral ==
    last.op \in {"execute", "import_module"} =>
        /\ last.src = Src_names(1) =>
               last.evaluated /\ value = VStr(<<"B", "o", "b">>)
        /\ last.src = Src_cd =>
               /\ last.evaluated /\ value = VStr(<<"c">>)
               /\ last.op = "import_module" =>
                      /\ {"a", "b"} \subseteq DOMAIN Env
                      /\ Env["a"] = VStr(<<"c">>) /\ Env["b"] = VStr(<<"d">>)

\* C21, as the specification words it: the prefix operator # yields the
\* length of its operand, in the middle of a line too, and the rest of the
\* line is parsed as usual.
C21_Length ==
    last.op \in {"execute", "import_module"} =>
        \A v \in Vals :
            /\ last.src = Src_lenlist(v) => last.evaluated /\ value = VInt(2)
            /\ last.src = Src_lenmid(v) => last.evaluated /\ value = VInt(1 + v)
            /\ last.src = Src_lenwhile(v) => last.evaluated /\ value = VInt(2)
            /\ last.src = Src_lenlit(v) => last.evaluated /\ value = VInt(3)
            /\ last.src = Src_lenafter(v) => last.evaluated /\ value = VInt(1)

\* C22, as the specification words it: an assignment to an indexation
\* writes the value into the cell of the container the earlier indices
\* reach and returns it; the other cells keep their contents and the write
\* is seen through every name bound to the same List.
C22_IndexAssignment ==
    last.op \in {"execute", "import_module"} =>
        \A v \in Vals :
            last.src \in {Src_setitem(v), Src_setvalue(v), Src_setalias(v),
                          Src_setnested(v), Src_setother(v)} =>
                last.evaluated /\ value = VInt(v)

\* The element the subscript i selects in a sequence of n elements: counted
\* from the front for i >= 0 and from the back for i < 0.
Selected(seq, i) == IF i >= 0 THEN seq[i + 1] ELSE seq[Len(seq) + i + 1]

\* The characters of the value of the string literal "12...k".
Quoted(k) == <<"\"">> \o DigitRun(1, k) \o <<"\"">>

\* The run has subscripted a sequence of n elements with i: within -n..n-1
\* it evaluated to the selected element, outside it failed with
\* DIIndexError.
Subscripted(n, i, element) ==
    IF -n <= i /\ i <= n - 1
    THEN last.evaluated /\ value = element
    ELSE ~last.evaluated /\ error = "DIIndexError" /\ value = Null

\* C23: subscripting a List or a String of length n with the integer i
\* succeeds exactly when -n <= i <= n-1, a negative i selecting the element
\* n+i (so that L[-1-i] and L[n-1-i] are the same element), and every other
\* integer fails with DIIndexError, for the empty List and String too.
C23_Subscript ==
    last.op \in {"execute", "import_module"} =>
        /\ \A p \in Indexed(0, MaxLen) :
               last.src = Src_at(p[1], p[2]) =>
                   Subscripted(p[1], p[2],
                               IF -p[1] <= p[2] /\ p[2] <= p[1] - 1
                               THEN VInt(Selected([j \in 1..p[1] |-> j], p[2]))
                               ELSE Null)
        /\ \A p \in StrIndexed(1, MaxVal) :
               last.src = Src_strat(p[1], p[2]) =>
                   Subscripted(p[1] + 2, p[2],
                               IF -(p[1] + 2) <= p[2] /\ p[2] <= p[1] + 1
                               THEN VStr(<<Selected(Quoted(p[1]), p[2])>>)
                               ELSE Null)
        /\ \A i \in -1..0 :
               last.src = Src_emptyat(i) => Subscripted(0, i, Null)

\* The first element of the longest list has been read with the most
\* negative index in range, -MaxLen.
C23_Witness ==
    /\ last.op = "import_module"
    /\ last.src = Src_at(MaxLen, -MaxLen)
    /\ last.evaluated /\ value = VInt(1)

\* C24, as the specification words it: reading a member or a key that the
\* Dict does not hold fails with DIIndexError, and reading a member of a
\* value that is not a Dict fails with DITypeError or DIIndexError.
C24_MissingMember ==
    last.op \in {"execute", "import_module"} =>
        \A v \in Vals :
            /\ last.src \in {Src_missing(v), Src_missingkey(v)} =>
                   ~last.evaluated /\ error = "DIIndexError"
            /\ last.src \in {Src_attr(v), Src_listmember(v), Src_deep(v)} =>
                   ~last.evaluated /\ error \in {"DITypeError", "DIIndexError"}

\* The run evaluated to a List of the Ints of the sequence ints.
YieldsList(ints) ==
    /\ last.evaluated
    /\ value.t = "list"
    /\ heap[value.a].c = [j \in DOMAIN ints |-> VInt(ints[j])]

\* C25, as the specification words it: a List times an Int is the List of
\* the elements times the Int, two Lists of equal length are combined
\* element by element, and two Lists of different lengths fail with
\* ValueError.
C25_ListArithmetic ==
    last.op \in {"execute", "import_module"} =>
        \A v \in Vals :
            /\ last.src = Src_scale(v) => YieldsList(<<v * v, v>>)
            /\ last.src = Src_plus(v) => YieldsList(<<1 + v, v + 2>>)
            /\ last.src = Src_times(v) => YieldsList(<<2 * v, v * 3>>)
            /\ last.src = Src_minus(v) => YieldsList(<<v - 1, 5 - v>>)
            /\ last.src \in {Src_differ(v), Src_differtimes(v)} =>
                   ~last.evaluated /\ error \in {"ValueError", "DIValueError"}

\* The scopes of the last run that ended before the program did: the
\* evaluations of loop bodies, in the sources of loops.
Bodies == {i \in Events("scope") : i < Len(log)}

\* C26: a loop with the bound n evaluates its condition n + 1 times and its
\* body n times; it evaluates to the value of the last evaluation of the
\* body, or to Null when n = 0; what the body assigns to names bound before
\* the loop is there in the next iteration and after the loop, and the name
\* t that the body binds first is bound neither when an iteration starts nor
\* after it has ended.
C26_While ==
    last.op \in {"execute", "import_module"} =>
        \A n \in Iterations :
            /\ last.src = Src_accum(n) => YieldsList([j \in 1..n |-> j - 1])
            /\ last.src = Src_count(n) => YieldsList(<<n + 1, n>>)
            /\ last.src = Src_lastbody(n) =>
                   last.evaluated /\ value = IF n = 0 THEN Null ELSE VInt(2 * n)
            /\ last.src = Src_bare(n) =>
                   last.evaluated /\ value = IF n = 0 THEN Null ELSE VInt(n)
            /\ last.src = Src_down(n) =>
                   last.evaluated /\ value = VInt((n * (n + 1)) \div 2)
            /\ last.src = Src_second(n) =>
                   last.evaluated /\ value = Null /\ Cardinality(Bodies) = n
            /\ last.src \in {Src_count(n), Src_lastbody(n)} =>
                   /\ Cardinality(Bodies) = n
                   /\ \A i \in Bodies :
                          /\ log[i].flush
                          /\ "t" \notin DOMAIN log[i].before
                          /\ "t" \in DOMAIN log[i].atexit
                          /\ "t" \notin DOMAIN log[i].after
                   /\ last.op = "import_module" =>
                          /\ "t" \notin DOMAIN Env
                          /\ "i" \in DOMAIN Env /\ Env["i"] = VInt(n)

\* The longest accumulating loop has run, and its list and counter stay
\* bound after the import.
C26_Witness ==
    /\ last.op = "import_module"
    /\ last.src = Src_accum(2 * MaxLen)
    /\ YieldsList([j \in 1..(2 * MaxLen) |-> j - 1])
    /\ Env["i"] = VInt(2 * MaxLen)
    /\ Env["a"] = value

\* C27, as the specification words it: or evaluates to its first truthy
\* operand, and to its first falsy one, else both to their last operand;
\* the operands after the deciding one are not evaluated and none is
\* evaluated twice, so an assignment in the last operand of an and whose
\* operands are all truthy is made once.
C27_ShortCircuit ==
    last.op \in {"execute", "import_module"} =>
        \A v \in Vals :
            /\ last.src = Src_andonce(v) => YieldsList(<<1, 1>>)
            /\ last.src = Src_orfirst(v) => YieldsList(<<0, v>>)
            /\ last.src = Src_orlast(v) => YieldsList(<<v, v>>)
            /\ last.src = Src_andshort(v) => YieldsList(<<0, 0>>)
            /\ last.src = Src_andlast(v) => YieldsList(<<v, v>>)
            /\ last.src = Src_ormid(v) => YieldsList(<<v, v>>)

\* The scopes of the root environment that the last run left normally, the
\* root environment after the last of them (on entry of the program if there
\* is none), and the place in the log from which later assignments count.
RootExits == {i \in Events("scope") : log[i].env = Root}
SettledAt == IF RootExits = {} THEN 1 ELSE Max(RootExits)
Settled == IF RootExits = {} THEN log[1].d ELSE log[SettledAt].after

\* The names assigned in the root environment after that.
AssignedSince ==
    {log[j].name : j \in {k \in SettledAt..Len(log) :
                              log[k].ev = "assign" /\ log[k].env = Root}}

\* C28: when the evaluation of a program fails, no scope the error leaves
\* flushes: the root environment holds what it held after the last scope
\* that ended normally, and every name assigned since, whatever the nesting
\* level of the assignment, with the value last assigned; a later execute
\* reads these names.
C28_FailedKeeps ==
    /\ (last.op \in {"execute", "import_module"} /\ ~last.evaluated
          /\ log # <<>>) =>
           /\ DOMAIN Env = DOMAIN Settled \cup AssignedSince
           /\ \A n \in DOMAIN Env :
                  Env[n] = IF n \in AssignedSince
                           THEN LastAssigned(Root, n, SettledAt, Len(log), Null)
                           ELSE Settled[n]
    /\ (last.op = "execute" /\ last.src = Src_readw
          /\ {"w", "u", "p"} \subseteq DOMAIN Env) =>
           /\ last.evaluated
           /\ value = VInt(NumOf(Env["w"]) + NumOf(Env["u"]) + NumOf(Env["p"]))

\* An execute has read the names w, u and p that a run which failed two
\* blocks deep left bound.
C28_Witness ==
    /\ last.op = "execute" /\ last.src = Src_readw /\ last.evaluated
    /\ \E v \in Vals : value = VInt(v + v + 1 + v)
    /\ {"w", "u", "p"} \subseteq DOMAIN Env

\* The call logged at i is a call of a function declared in the body of the
\* function call that returned at r, made after that return.
Escaped(i, r) ==
    /\ r < i
    /\ ~CallOf(r).cls /\ log[r].err = ""
    /\ ~log[i].cls
    /\ heap[log[i].f].env = log[r].callee

\* C29: a function declared in the body of a function and called after the
\* enclosing call has returned finds in the environment of that call the
\* names the enclosing body was entered with, its parameters among them,
\* and none of the names the enclosing body bound; reading a parameter
\* succeeds and reading a name of the enclosing body, the one the inner
\* function was assigned to included, fails with DINameError.
C29_EscapedClosure ==
    /\ \A i \in Calls : \A r \in Returns : Escaped(i, r) =>
           /\ log[i].closure = log[r].calleeAfter
           /\ DOMAIN log[i].closure = DOMAIN log[log[r].call + 1].d
           /\ ParamNames(CallOf(r)) \subseteq DOMAIN log[i].closure
           /\ (Written(r) \ DOMAIN log[log[r].call + 1].d)
                  \cap DOMAIN log[i].closure = {}
           /\ Entered(i) => log[i + 1].d = Bound(log[i].closure, log[i])
    /\ last.op \in {"execute", "import_module"} =>
           \A v \in Vals :
               /\ last.src = Src_readparam(v) =>
                      last.evaluated /\ value = VInt(1 + v)
               /\ last.src \in {Src_readlocal(v), Src_readself(v)} =>
                      ~last.evaluated /\ error = "DINameError"

\* A function returned by a call whose body bound two names has been called:
\* it ran with the parameter of that call and without the two names.
C29_Witness ==
    \E i \in Calls : \E r \in Returns :
        /\ Escaped(i, r) /\ Entered(i)
        /\ "p" \in DOMAIN log[i + 1].d
        /\ {"loc", "h"} \subseteq Written(r)
        /\ {"loc", "h"} \cap DOMAIN log[i + 1].d = {}
        /\ last.evaluated

\* C30, as the specification words it: a function call ends with
\* DIFunctionArgsCountError only when it was made with a number of arguments
\* other than the number of parameters; an error of the body of a call made
\* with the right number reaches the caller with its own kind, as the
\* ValueError of the addition of two Lists of different lengths does.
C30_ArityErrorOnly ==
    /\ \A r \in Returns :
           (~CallOf(r).cls /\ log[r].err = "DIFunctionArgsCountError") =>
               Len(CallOf(r).args) # Len(CallOf(r).params)
    /\ last.op \in {"execute", "import_module"} =>
           \A v \in Vals :
               last.src = Src_bodymismatch(v) =>
                   ~last.evaluated /\ error \in {"ValueError", "DIValueError"}

=============================================================================
